---- MODULE Spec2Model ----
(***************************************************************************)
(* Model of the BountyBoard scrape / normalize / merge pipeline:           *)
(* the source adapters (RemoteOK, Arbeitnow, Himalayas, JSearch,           *)
(* BountyBoard, Mock) and the two versions of the scraper manager          *)
(* (searchGigs with Promise.all, and the sequential searchGigs with the    *)
(* mock fallback).                                                         *)
(*                                                                         *)
(* Conventions.  A JavaScript number that the code only ever tests for     *)
(* truthiness (options.limit, options.minBudget, salary_min, ...) is a     *)
(* natural number in which 0 stands for both 0 and undefined: the code's   *)
(* tests `if (x)`, `a || b`, `a && b` do not tell them apart.  The absent  *)
(* string (error: undefined, language: undefined) is "".  A free text is   *)
(* the triple of its match counts for the three language patterns, which   *)
(* is all detectLanguage reads of it.  Timestamps are left out.            *)
(***************************************************************************)
EXTENDS Integers, Sequences, FiniteSets, TLC

(***************************************************************************)
(* Bounds of the model.                                                    *)
(***************************************************************************)
MaxItems == 2      \* raw items in one upstream payload (adapter runs)
MaxMoney == 2      \* salaries and budget filters range over 0..MaxMoney
MaxSources == 3    \* length of the sources array given to searchGigs
MaxBiz == 1        \* businesses the places search returns per category
MaxMatches == 5    \* pattern matches counted in one text (pure calls)
MaxClock == 1      \* milliseconds that pass between two calls
MaxBusinesses == 4 \* businesses one places search returns (opportunity search)
MaxPainPoints == 2 \* pain points of one scored business
MaxConfident == 7  \* missing features of one scored business with confidence > 0.7
MaxReviews == 2    \* reviews of one business that can mention a pain point
MaxHits == 2       \* keywords of one category in one review text
MaxSilent == 22    \* further reviews of the business without any keyword
MaxPages == 2      \* pages of one website that are fetched and analysed
MaxCurated == 2    \* curated gigs added in one run of the stores
MaxScraped == 2    \* gigs one scrape of one source returns
MaxOps == 3        \* store operations in one run

(***************************************************************************)
(* Program constants.                                                      *)
(***************************************************************************)
threshold == 3             \* detectLanguage: const threshold = 3
MaxCategories == 3         \* businessTypes.slice(0, 3)
MaxPerCategory == 3        \* searchResult.businesses.slice(0, 3)

\* the clock: the value Date.now() returns.  It advances between the two
\* calls of specification SpecRepeat and stands still elsewhere.
VARIABLES now

NoError == ""
Min(a, b) == IF a < b THEN a ELSE b

\* Array.prototype.slice(0, k)
Slice(s, k) == SubSeq(s, 1, Min(k, Len(s)))

\* Array.prototype.slice(1)
Slice1(s) == IF Len(s) = 0 THEN <<>> ELSE Tail(s)

RECURSIVE Flatten(_)
\* Array.prototype.flatMap over a sequence of sequences
Flatten(ss) == IF Len(ss) = 0 THEN <<>> ELSE Head(ss) \o Flatten(Tail(ss))

(***************************************************************************)
(* Language filter (src/lib/scrapers/base.ts).                             *)
(***************************************************************************)
EnText == [de |-> 0, fr |-> 0, es |-> 0]
DeText == [de |-> threshold + 1, fr |-> 0, es |-> 0]
TextSamples == {EnText, DeText}

detectLanguageAtLeast(text) ==
    IF text.de >= threshold /\ text.de > text.fr /\ text.de > text.es THEN "de"
    ELSE IF text.fr >= threshold /\ text.fr > text.de /\ text.fr > text.es THEN "fr"
    ELSE IF text.es >= threshold /\ text.es > text.de /\ text.es > text.fr THEN "es"
    ELSE "en"

detectLanguage(text) ==
    LET germanMatches == text.de
        frenchMatches == text.fr
        spanishMatches == text.es
    IN  IF germanMatches > threshold /\ germanMatches > frenchMatches
           /\ germanMatches > spanishMatches THEN "de"
        ELSE IF frenchMatches > threshold /\ frenchMatches > germanMatches
           /\ frenchMatches > spanishMatches THEN "fr"
        ELSE IF spanishMatches > threshold /\ spanishMatches > germanMatches
           /\ spanishMatches > frenchMatches THEN "es"
        ELSE "en"

isInLanguageStrict(text, targetLang) == detectLanguage(text) = targetLang

isInLanguage(text, targetLang) ==
    LET detectedLang == detectLanguage(text)
    IN  IF targetLang = "en" THEN detectedLang = "en"
        ELSE detectedLang = targetLang \/ detectedLang = "en"

\* `${source}_${externalId}`: the pair stands for the concatenation
generateGigId(source, externalId) == <<source, externalId>>

(***************************************************************************)
(* Data.                                                                   *)
(***************************************************************************)
Money == 0..MaxMoney
Languages == {"", "en", "de"}
Queries == {"", "web"}

\* SearchOptions
SearchOptions == [limit: 0..MaxItems, minBudget: Money, maxBudget: Money,
                  language: Languages]

\* ScrapedGig.budget: present iff the upstream gave a salary bound
MkBudget(min, max) ==
    IF min # 0 \/ max # 0 THEN [present |-> TRUE, min |-> min, max |-> max]
    ELSE [present |-> FALSE, min |-> 0, max |-> 0]

\* ScrapedGig; ext is the upstream item the record was mapped from, and
\* the external id is the tuple of the parts of the id string
MkGig(source, ext, budget, text) ==
    [id |-> generateGigId(source, <<ext>>), source |-> source, ext |-> ext,
     budget |-> budget, text |-> text]

\* a record whose external id ends in `_${Date.now()}`
MkGigNow(source, ext, clock, budget, text) ==
    [id |-> generateGigId(source, <<ext, clock>>), source |-> source, ext |-> ext,
     budget |-> budget, text |-> text]

\* ScrapeResult
Success(source, gigs, error) ==
    [source |-> source, success |-> TRUE, gigs |-> gigs, error |-> error]

Failure(source, error) ==
    [source |-> source, success |-> FALSE, gigs |-> <<>>, error |-> error]

\* The outcomes of one fetch + response.json(): a 2xx with the expected
\* shape, a 2xx whose JSON has another shape, a 2xx whose body is no JSON,
\* a non-2xx status, and fetch itself rejecting.
ResponseKinds == {"ok", "wrong_shape", "bad_json", "http_error", "throws"}

\* The salary bounds <<min, max>> an upstream job carries: none, an upper
\* bound only, or a range that ends at the top salary.
Salaries ==
    {<<0, 0>>} \cup {<<0, m>> : m \in 1..MaxMoney}
               \cup {<<m, MaxMoney>> : m \in 1..MaxMoney}

NoSalary == {<<0, 0>>}

\* One raw upstream job.  min/max: the salary bounds; text: title and
\* description; web: the text contains the word "web"; pub: job_publisher.
RawJob(salaries, texts, webs, pubs) ==
    {[min |-> sal[1], max |-> sal[2], text |-> t, web |-> w, pub |-> p] :
        sal \in salaries, t \in texts, w \in webs, p \in pubs}

\* Payloads of at most n jobs; the job at position i has external id i.
Payloads(Jobs, n) ==
    UNION {[1..k -> Jobs] : k \in 0..n}

Responses(Jobs, n) ==
    {[kind |-> "ok", items |-> p] : p \in Payloads(Jobs, n)}
    \cup {[kind |-> k, items |-> <<>>] : k \in ResponseKinds \ {"ok"}}

\* error.message of what the fetch / parse step throws
TransportError(resp, httpMessage) ==
    CASE resp.kind = "throws" -> "fetch failed"
      [] resp.kind = "http_error" -> httpMessage
      [] resp.kind = "bad_json" -> "Unexpected token in JSON"
      [] OTHER -> NoError

(***************************************************************************)
(* Steps shared by the adapters.                                           *)
(***************************************************************************)
\* if (options?.language) gigs = gigs.filter(isInLanguage(title + description))
LanguageFilter(gigs, options) ==
    IF options.language # ""
    THEN SelectSeq(gigs, LAMBDA g : isInLanguage(g.text, options.language))
    ELSE gigs

\* a truncation that keeps one record too many
ApplyLimitOffByOne(gigs, options) ==
    IF options.limit # 0 THEN Slice(gigs, options.limit + 1) ELSE gigs

\* if (options?.limit) gigs = gigs.slice(0, options.limit)
ApplyLimit(gigs, options) ==
    IF options.limit # 0 THEN Slice(gigs, options.limit) ELSE gigs

(***************************************************************************)
(* RemoteOKScraper (src/lib/scrapers/remoteok.ts).                         *)
(***************************************************************************)
RemoteOKJobs == RawJob(Salaries, TextSamples, {FALSE}, {""})

\* if (options?.minBudget) gigs = gigs.filter(!budget || (budget.min && budget.min >= minBudget))
RemoteOKBudgetFilter(gigs, options) ==
    IF options.minBudget # 0
    THEN SelectSeq(gigs, LAMBDA g : \/ ~g.budget.present
                                    \/ (g.budget.min # 0 /\ g.budget.min >= options.minBudget))
    ELSE gigs

RemoteOKSearch(query, options, resp) ==
    IF resp.kind \in {"throws", "http_error", "bad_json"}
    THEN Failure("remoteok", TransportError(resp, "RemoteOK API error"))
    ELSE LET data == resp.items
             \* Array.isArray(data) ? data.slice(1) : []
             jobs == IF resp.kind = "ok" THEN Slice1(data) ELSE <<>>
             mapped == [i \in 1..Len(jobs) |->
                          MkGig("remoteok", i + 1,
                                MkBudget(jobs[i].min, jobs[i].max), jobs[i].text)]
         IN  Success("remoteok",
                     RemoteOKBudgetFilter(
                         ApplyLimit(LanguageFilter(mapped, options), options),
                         options),
                     NoError)

(***************************************************************************)
(* ArbeitnowScraper (src/unnamed/part_007, second file).                   *)
(***************************************************************************)
ArbeitnowJobs == RawJob(NoSalary, TextSamples, {FALSE}, {""})

ArbeitnowSearch(query, options, resp) ==
    IF resp.kind \in {"throws", "http_error", "bad_json"}
    THEN Failure("arbeitnow", TransportError(resp, "Arbeitnow API error"))
    ELSE IF resp.kind = "wrong_shape"
    \* data.data is undefined: data.data.map throws a TypeError
    THEN Failure("arbeitnow", "Cannot read properties of undefined")
    ELSE LET jobs == resp.items
             mapped == [i \in 1..Len(jobs) |->
                          MkGig("arbeitnow", i, MkBudget(0, 0), jobs[i].text)]
         IN  Success("arbeitnow",
                     ApplyLimit(LanguageFilter(mapped, options), options),
                     NoError)

(***************************************************************************)
(* HimalayasScraper (src/unnamed/part_000).                                *)
(***************************************************************************)
HimalayasJobs == RawJob(Salaries, {EnText}, BOOLEAN, {""})

\* queryLower.split(" ").some(word => searchText.includes(word)): the empty
\* query splits into [""], and "" is a substring of every text
QueryMatches(query, job) == query = "" \/ (query = "web" /\ job.web)

HimalayasSearch(query, options, resp) ==
    IF resp.kind \in {"throws", "http_error", "bad_json"}
    THEN Failure("himalayas", TransportError(resp, "Himalayas API error"))
    ELSE IF resp.kind = "wrong_shape"
    \* data.jobs is undefined: data.jobs.filter throws a TypeError
    THEN Failure("himalayas", "Cannot read properties of undefined")
    ELSE LET jobs == resp.items
             all == [i \in 1..Len(jobs) |->
                       [gig |-> MkGig("himalayas", i,
                                      MkBudget(jobs[i].min, jobs[i].max), jobs[i].text),
                        hit |-> QueryMatches(query, jobs[i])]]
             filteredJobs == SelectSeq(all, LAMBDA j : j.hit)
             mapped == [i \in 1..Len(filteredJobs) |-> filteredJobs[i].gig]
         IN  Success("himalayas", ApplyLimit(mapped, options), NoError)

(***************************************************************************)
(* JSearchScraper (src/lib/scrapers/jsearch.ts), registered as "indeed"    *)
(* and as "linkedin".                                                      *)
(***************************************************************************)
JSearchJobs == RawJob(Salaries, {EnText}, {FALSE}, {"Indeed", "LinkedIn"})

mapPublisherToSource(publisher) ==
    IF publisher = "" THEN "indeed"
    ELSE IF publisher = "LinkedIn" THEN "linkedin"
    ELSE "indeed"

JSearchKeyError ==
    "RAPIDAPI_KEY environment variable not set. Get a free key at https://rapidapi.com/letscrape-6bRBa3QguO5/api/jsearch"

JSearchSearch(source, query, options, env, resp) ==
    IF ~env.rapidKey THEN Failure(source, JSearchKeyError)
    ELSE IF resp.kind \in {"throws", "http_error", "bad_json"}
    THEN Failure(source, TransportError(resp, "JSearch API error"))
    ELSE IF resp.kind = "wrong_shape"
    \* data.status !== "OK" || !data.data
    THEN Failure(source, "Invalid response from JSearch API")
    ELSE LET jobs == resp.items
             mapped == [i \in 1..Len(jobs) |->
                          MkGig(mapPublisherToSource(jobs[i].pub), i,
                                MkBudget(jobs[i].min, jobs[i].max), jobs[i].text)]
             bySource == IF source # "indeed"
                         THEN SelectSeq(mapped, LAMBDA g : g.source = source)
                         ELSE mapped
         IN  Success(source, ApplyLimit(bySource, options), NoError)

(***************************************************************************)
(* BountyBoardScraper (src/unnamed/part_001).  Its upstream is the places  *)
(* search: one result per searched category, an error or a list of         *)
(* businesses; the analysis of a business yields a record ("gig"), no      *)
(* record because getBusinessDetails gave no business ("null"), or throws. *)
(***************************************************************************)
BusinessOutcomes == {"gig", "null", "throws"}

CategoryResults ==
    {[error |-> TRUE, businesses |-> <<>>]}
    \cup {[error |-> FALSE, businesses |-> b] :
            b \in UNION {[1..k -> BusinessOutcomes] : k \in 0..MaxBiz}}

PlacesResponses ==
    {[kind |-> "places", cats |-> c] : c \in [1..MaxCategories -> CategoryResults]}

\* the record returned while GOOGLE_PLACES_API_KEY is absent
SetupGig == MkGig("bountyboard", 0, MkBudget(0, 0), EnText)

\* the records of category c, in the order the businesses are analyzed
CategoryGigs(c, cat) ==
    IF cat.error THEN <<>>
    ELSE LET bs == Slice(cat.businesses, MaxPerCategory)
             all == [b \in 1..Len(bs) |->
                       [gig |-> MkGigNow("bountyboard", (c - 1) * MaxPerCategory + b,
                                         now, MkBudget(0, 0), EnText),
                        made |-> bs[b] = "gig"]]
             made == SelectSeq(all, LAMBDA x : x.made)
         IN  [i \in 1..Len(made) |-> made[i].gig]

BountyBoardSearch(query, options, env, resp) ==
    IF ~env.placesKey
    THEN Success("bountyboard", <<SetupGig>>, NoError)
    ELSE LET cats == resp.cats
             gigs == Flatten([c \in 1..Len(cats) |-> CategoryGigs(c, cats[c])])
             anyError == \E c \in 1..Len(cats) : cats[c].error
             \* errors.length > 0 ? errors.join("; ") : undefined
             error == IF anyError THEN "Google Places API error" ELSE NoError
         IN  Success("bountyboard", ApplyLimit(gigs, options), error)

(***************************************************************************)
(* MockScraper (src/lib/scrapers/mock.ts), the fallback of the sequential  *)
(* scraper manager.                                                        *)
(***************************************************************************)
\* MOCK_GIGS: source, budget.min, budget.max, and whether title,
\* description and skills contain "web"
MOCK_GIGS ==
    << [source |-> "upwork", min |-> 2000, max |-> 5000, web |-> FALSE],
       [source |-> "upwork", min |-> 50, max |-> 80, web |-> FALSE],
       [source |-> "freelancer", min |-> 800, max |-> 1500, web |-> TRUE],
       [source |-> "freelancer", min |-> 300, max |-> 600, web |-> FALSE],
       [source |-> "linkedin", min |-> 40, max |-> 60, web |-> FALSE],
       [source |-> "indeed", min |-> 100, max |-> 200, web |-> FALSE],
       [source |-> "weworkremotely", min |-> 5000, max |-> 8000, web |-> FALSE],
       [source |-> "upwork", min |-> 1500, max |-> 2500, web |-> FALSE] >>

\* the gig of MOCK_GIGS[i]; its id is made from its index in the returned list
MockGig(i, index) ==
    MkGigNow(MOCK_GIGS[i].source, index, now,
             MkBudget(MOCK_GIGS[i].min, MOCK_GIGS[i].max), EnText)

MockSearch(source, query, options) ==
    LET all == [i \in 1..Len(MOCK_GIGS) |-> [i |-> i, g |-> MOCK_GIGS[i]]]
        byQuery == SelectSeq(all, LAMBDA x : QueryMatches(query, x.g))
        bySource == IF source # "upwork"
                    THEN SelectSeq(byQuery, LAMBDA x : x.g.source = source)
                    ELSE byQuery
        byMin == IF options.minBudget # 0
                 THEN SelectSeq(bySource, LAMBDA x : x.g.min # 0 /\ x.g.min >= options.minBudget)
                 ELSE bySource
        byMax == IF options.maxBudget # 0
                 THEN SelectSeq(byMin, LAMBDA x : x.g.max # 0 /\ x.g.max <= options.maxBudget)
                 ELSE byMin
        limited == ApplyLimit(byMax, options)
    IN  Success(source, [k \in 1..Len(limited) |-> MockGig(limited[k].i, k - 1)], NoError)

\* searchAllMock: one result, every mock gig that matches the query
searchAllMock(query, options) ==
    LET result == MockSearch("upwork", query, options)
        all == [i \in 1..Len(MOCK_GIGS) |-> [i |-> i, g |-> MOCK_GIGS[i]]]
        byQuery == SelectSeq(all, LAMBDA x : QueryMatches(query, x.g))
    IN  << [result EXCEPT !.gigs = [k \in 1..Len(byQuery) |->
                                      MockGig(byQuery[k].i, byQuery[k].i - 1)]] >>

(***************************************************************************)
(* The adapter behind a source tag, and what its upstream can answer.      *)
(***************************************************************************)
\* process.env: RAPIDAPI_KEY, GOOGLE_PLACES_API_KEY, USE_MOCK_SCRAPERS
Envs == [rapidKey: BOOLEAN, placesKey: BOOLEAN, useMock: BOOLEAN]

\* the first element of the RemoteOK array, which the adapter skips
Metadata == [min |-> 0, max |-> 0, text |-> EnText, web |-> FALSE, pub |-> ""]

RemoteOKResponses(Jobs, n) ==
    {[kind |-> "ok", items |-> <<>>]}
    \cup {[kind |-> "ok", items |-> <<Metadata>> \o p] : p \in Payloads(Jobs, n)}
    \cup {[kind |-> k, items |-> <<>>] : k \in ResponseKinds \ {"ok"}}

\* a response that is never read: the adapter returns before any fetch
NoResponse == [kind |-> "none", items |-> <<>>]

\* scraper.search(query, options) of the adapter registered for tag
\* ("upwork" stands for a MockScraper)
AdapterSearch(tag, query, options, env, resp) ==
    CASE tag = "remoteok" -> RemoteOKSearch(query, options, resp)
      [] tag = "arbeitnow" -> ArbeitnowSearch(query, options, resp)
      [] tag = "himalayas" -> HimalayasSearch(query, options, resp)
      [] tag \in {"indeed", "linkedin"} -> JSearchSearch(tag, query, options, env, resp)
      [] tag = "bountyboard" -> BountyBoardSearch(query, options, env, resp)
      [] OTHER -> MockSearch(tag, query, options)

\* whether search reaches its first fetch: the credential checks of
\* JSearchScraper and BountyBoardScraper come first, MockScraper has no upstream
IssuesFetch(tag, env) ==
    CASE tag \in {"indeed", "linkedin"} -> env.rapidKey
      [] tag = "bountyboard" -> env.placesKey
      [] tag = "upwork" -> FALSE
      [] OTHER -> TRUE

\* what the upstream of tag can answer, with payloads of at most n jobs
\* drawn from the job kinds the adapter reads
UpstreamResponses(tag, n) ==
    CASE tag = "remoteok" -> RemoteOKResponses(RemoteOKJobs, n)
      [] tag = "arbeitnow" -> Responses(ArbeitnowJobs, n)
      [] tag = "himalayas" -> Responses(HimalayasJobs, n)
      [] tag \in {"indeed", "linkedin"} -> Responses(JSearchJobs, n)
      [] tag = "bountyboard" -> PlacesResponses
      [] OTHER -> {NoResponse}

NoResult == [source |-> "", success |-> FALSE, gigs |-> <<>>, error |-> NoError]

(***************************************************************************)
(* State.                                                                  *)
(*   One adapter call (specification SpecAdapter):                         *)
(*     adapter, aquery, aoptions, aenv  the call and its environment       *)
(*     apc        "ready", "fetching" (a request is in flight), "done"     *)
(*     aresp      the upstream's answer, once it arrived                   *)
(*     aresult    the ScrapeResult the call resolved to                    *)
(*     arequests  the number of requests the call has issued               *)
(*   One searchGigs call (specification Spec):                             *)
(*     impl       which scraper manager runs: "parallel" is searchGigs of  *)
(*                src/unnamed/part_007, "sequential" is searchGigs of      *)
(*                src/lib/scrapers/index.ts                                *)
(*     query, sources, options, env  the call and its environment          *)
(*     pc         "idle", "map", "await", "loop", "mock", "done"           *)
(*     next       index of the next element of sources to be dispatched    *)
(*     calls      per element of sources: "notstarted", "pending",         *)
(*                "settled"                                                *)
(*     answers    per element of sources: the answer its upstream gave     *)
(*     results    per element of sources: what its promise resolved to     *)
(*     out        the array searchGigs returned                            *)
(*     response   the JSON body the search route answered with             *)
(*   One BountyBoardScraper.search call, step by step (SpecBounty):        *)
(*     bb         the locals of the call, see BountyStart                  *)
(*   A repeated adapter call (specification SpecRepeat):                   *)
(*     aprev      the ScrapeResult of the first of the two calls           *)
(*   One call of a pure function (specification SpecPure):                 *)
(*     fname      the function called                                      *)
(*     fin        its arguments                                            *)
(*     fpc        "ready", "done"                                          *)
(*     fout       the value it returned                                    *)
(***************************************************************************)
VARIABLES adapter, aquery, aoptions, aenv, apc, aresp, aresult, arequests,
          impl, query, sources, options, env, pc, next, calls, answers, results, out,
          fname, fin, fpc, fout,
          aprev, response, bb, st

avars == <<adapter, aquery, aoptions, aenv, apc, aresp, aresult, arequests>>
svars == <<impl, query, sources, options, env, pc, next, calls, answers, results, out>>
fvars == <<fname, fin, fpc, fout>>
\* the variables of the machines other than the adapter call and searchGigs
rvars == <<now, aprev>>
pvars == <<response>>
bvars == <<bb>>
tvars == <<st>>
ovars == <<fvars, rvars, pvars, bvars, tvars>>
vars == <<avars, svars, ovars>>

NoOptions == [limit |-> 0, minBudget |-> 0, maxBudget |-> 0, language |-> ""]
NoEnv == [rapidKey |-> FALSE, placesKey |-> FALSE, useMock |-> FALSE]

AdapterOff ==
    /\ adapter = "" /\ aquery = "" /\ aoptions = NoOptions /\ aenv = NoEnv
    /\ apc = "off" /\ aresp = NoResponse /\ aresult = NoResult /\ arequests = 0

PureOff == fname = "" /\ fin = <<>> /\ fpc = "off" /\ fout = <<>>

RepeatOff == now = 0 /\ aprev = NoResult

\* no response was sent
NoRouteResponse == [success |-> FALSE, gigs |-> <<>>, totalCount |-> 0, errors |-> <<>>]

RouteOff == response = NoRouteResponse

BountyOff == bb = [pc |-> "off"]

StoreOff == st = [pc |-> "off"]

OthersOff == PureOff /\ RepeatOff /\ RouteOff /\ BountyOff /\ StoreOff

ManagerOff ==
    /\ impl = "" /\ query = "" /\ sources = <<>> /\ options = NoOptions
    /\ env = NoEnv /\ pc = "off" /\ next = 0 /\ calls = <<>> /\ answers = <<>>
    /\ results = <<>>
    /\ out = <<>>

(***************************************************************************)
(* One adapter call.                                                       *)
(***************************************************************************)
Adapters == {"remoteok", "arbeitnow", "himalayas", "indeed", "linkedin",
             "bountyboard", "upwork"}

\* the inputs an adapter reads: the others are held at one value
AdapterQueries(tag) == IF tag \in {"himalayas", "upwork"} THEN Queries ELSE {"web"}

AdapterEnvs(tag) ==
    CASE tag \in {"indeed", "linkedin"} ->
            {[rapidKey |-> b, placesKey |-> FALSE, useMock |-> FALSE] : b \in BOOLEAN}
      [] tag = "bountyboard" ->
            {[rapidKey |-> FALSE, placesKey |-> b, useMock |-> FALSE] : b \in BOOLEAN}
      [] OTHER -> {NoEnv}

InitAdapter ==
    /\ ManagerOff
    /\ OthersOff
    /\ adapter \in Adapters
    /\ aquery \in AdapterQueries(adapter)
    /\ aoptions \in SearchOptions
    /\ aenv \in AdapterEnvs(adapter)
    /\ apc = "ready"
    /\ aresp = NoResponse
    /\ aresult = NoResult
    /\ arequests = 0

\* search, up to its first await: the credential check, then the fetch
AdapterStart ==
    /\ apc = "ready"
    /\ IF IssuesFetch(adapter, aenv)
       THEN /\ apc' = "fetching"
            /\ arequests' = arequests + 1
            /\ UNCHANGED aresult
       ELSE /\ apc' = "done"
            /\ aresult' = AdapterSearch(adapter, aquery, aoptions, aenv, NoResponse)
            /\ UNCHANGED arequests
    /\ UNCHANGED <<adapter, aquery, aoptions, aenv, aresp>>
    /\ UNCHANGED svars
    /\ UNCHANGED ovars

\* the upstream answers and search runs to its return
AdapterRespond ==
    /\ apc = "fetching"
    /\ \E resp \in UpstreamResponses(adapter, MaxItems) :
          /\ aresp' = resp
          /\ aresult' = AdapterSearch(adapter, aquery, aoptions, aenv, resp)
    /\ apc' = "done"
    /\ UNCHANGED <<adapter, aquery, aoptions, aenv, arequests>>
    /\ UNCHANGED svars
    /\ UNCHANGED ovars

NextAdapter == AdapterStart \/ AdapterRespond

SpecAdapter == InitAdapter /\ [][NextAdapter]_vars

(***************************************************************************)
(* The scraper manager: searchGigs of src/unnamed/part_007 ("parallel")    *)
(* and searchGigs of src/lib/scrapers/index.ts ("sequential").             *)
(***************************************************************************)
\* the tags given to searchGigs: a job board without credential, one the
\* sequential version does not register, a JSearch instance, the places
\* search, and a tag neither version registers
Tags == {"remoteok", "himalayas", "linkedin", "bountyboard", "upwork"}

\* the scrapers map of each version
Registered(version) ==
    IF version = "parallel"
    THEN {"remoteok", "arbeitnow", "himalayas", "indeed", "linkedin", "bountyboard"}
    ELSE {"remoteok"}

\* `Scraper for ${source} is not implemented. Available: ${keys.join(", ")}`
NotImplementedError(source) ==
    CASE source = "upwork" ->
            "Scraper for upwork is not implemented. Available: remoteok, arbeitnow, himalayas, indeed, linkedin, bountyboard"
      [] OTHER -> "Scraper is not implemented"

NotImplemented(source) == Failure(source, NotImplementedError(source))

\* what the promise of one element of sources resolves to.  No adapter
\* rejects (each search catches what it throws), so the catch around
\* scraper.search is never entered.
ManagerResult(version, source, q, opts, e, resp) ==
    IF source \in Registered(version)
    THEN AdapterSearch(source, q, opts, e, resp)
    ELSE IF version = "parallel"
    THEN NotImplemented(source)
    ELSE MockSearch(source, q, opts)

\* whether that promise waits for an upstream answer
ManagerFetches(version, source, e) ==
    source \in Registered(version) /\ IssuesFetch(source, e)

\* the answers the upstreams give during a searchGigs call: a payload of
\* one job, a non-2xx status, or a rejected fetch; for the places search,
\* every category failing or every category returning the same businesses
SampleJob == [min |-> 1, max |-> MaxMoney, text |-> EnText, web |-> TRUE, pub |-> "LinkedIn"]

SampleKinds == {"ok", "http_error", "throws"}

SampleResponses(tag) ==
    CASE tag = "remoteok" ->
            {r \in RemoteOKResponses({SampleJob}, 1) :
                r.kind \in SampleKinds /\ (r.kind = "ok" => Len(r.items) = 2)}
      [] tag = "bountyboard" ->
            {[kind |-> "places", cats |-> [c \in 1..MaxCategories |-> r]] :
                r \in {x \in CategoryResults :
                         \A b \in 1..Len(x.businesses) : x.businesses[b] = "gig"}}
      [] OTHER ->
            {r \in Responses({SampleJob}, 1) :
                r.kind \in SampleKinds /\ (r.kind = "ok" => Len(r.items) = 1)}

\* the lists that request both tags of the JSearch upstream
JSearchLists == {<<"indeed", "linkedin">>, <<"linkedin", "indeed">>}

SourceLists == UNION {[1..k -> Tags] : k \in 0..MaxSources} \cup JSearchLists

\* the options of the search route: limit and language set
RouteOptions == [limit |-> 1, minBudget |-> 0, maxBudget |-> 0, language |-> "en"]

\* the environment variables each version reads
ManagerEnvs(version) ==
    IF version = "parallel"
    THEN {[rapidKey |-> a, placesKey |-> b, useMock |-> FALSE] : a, b \in BOOLEAN}
    ELSE {[rapidKey |-> FALSE, placesKey |-> FALSE, useMock |-> m] : m \in BOOLEAN}

Init ==
    /\ AdapterOff
    /\ OthersOff
    /\ impl \in {"parallel", "sequential"}
    /\ env \in ManagerEnvs(impl)
    /\ pc = "idle"
    /\ query = "" /\ sources = <<>> /\ options = NoOptions
    /\ next = 0 /\ calls = <<>> /\ answers = <<>> /\ results = <<>> /\ out = <<>>

\* searchGigs(query, sources, options) is called
CallSearchGigs ==
    /\ pc = "idle"
    /\ impl = "parallel"
    /\ \E q \in {"web"}, srcs \in SourceLists, opts \in {RouteOptions} :
          /\ query' = q /\ sources' = srcs /\ options' = opts
          /\ calls' = [i \in 1..Len(srcs) |-> "notstarted"]
          /\ answers' = [i \in 1..Len(srcs) |-> NoResponse]
          /\ results' = [i \in 1..Len(srcs) |-> NoResult]
    /\ next' = 1
    /\ pc' = "map"
    /\ UNCHANGED <<impl, env, out>>
    /\ UNCHANGED avars
    /\ UNCHANGED ovars

\* sources.map(async (source) => ...): the callback of the next element
\* runs up to its first await, which starts that source's search
MapStep ==
    /\ pc = "map"
    /\ next <= Len(sources)
    /\ calls' = [calls EXCEPT ![next] = "pending"]
    /\ next' = next + 1
    /\ UNCHANGED <<impl, query, sources, options, env, pc, answers, results, out>>
    /\ UNCHANGED avars
    /\ UNCHANGED ovars

\* await Promise.all(searchPromises): searchGigs suspends
AwaitAll ==
    /\ pc = "map"
    /\ next > Len(sources)
    /\ pc' = "await"
    /\ UNCHANGED <<impl, query, sources, options, env, next, calls, answers, results, out>>
    /\ UNCHANGED avars
    /\ UNCHANGED ovars

\* the promise of element i settles while searchGigs is suspended
Settle(i) ==
    /\ pc = "await"
    /\ i \in 1..Len(sources)
    /\ calls[i] = "pending"
    /\ \E resp \in IF ManagerFetches(impl, sources[i], env)
                   THEN SampleResponses(sources[i]) ELSE {NoResponse} :
          /\ answers' = [answers EXCEPT ![i] = resp]
          /\ results' = [results EXCEPT ![i] =
                           ManagerResult(impl, sources[i], query, options, env, resp)]
    /\ calls' = [calls EXCEPT ![i] = "settled"]
    /\ UNCHANGED <<impl, query, sources, options, env, pc, next, out>>
    /\ UNCHANGED avars
    /\ UNCHANGED ovars

AllSettled == \A i \in 1..Len(sources) : calls[i] = "settled"

ReturnEarly ==
    /\ pc = "await"
    /\ \E i \in 1..Len(sources) : calls[i] = "settled" /\ ~results[i].success
    /\ out' = SelectSeq(results, LAMBDA r : r # NoResult)
    /\ pc' = "done"
    /\ UNCHANGED <<impl, query, sources, options, env, next, calls, answers, results>>
    /\ UNCHANGED avars
    /\ UNCHANGED ovars

\* Promise.all resolved: results.push(...searchResults); return results
Return ==
    /\ pc = "await"
    /\ AllSettled
    /\ out' = results
    /\ pc' = "done"
    /\ UNCHANGED <<impl, query, sources, options, env, next, calls, answers, results>>
    /\ UNCHANGED avars
    /\ UNCHANGED ovars

\* searchGigs of index.ts is called
CallSearchGigsSeq ==
    /\ pc = "idle"
    /\ impl = "sequential"
    /\ \E q \in {"web"}, srcs \in SourceLists, opts \in {RouteOptions} :
          /\ query' = q /\ sources' = srcs /\ options' = opts
          /\ calls' = [i \in 1..Len(srcs) |-> "notstarted"]
          /\ answers' = [i \in 1..Len(srcs) |-> NoResponse]
          /\ results' = [i \in 1..Len(srcs) |-> NoResult]
          \* useMock = USE_MOCK_SCRAPERS === "true" || sources.length === 0
          /\ pc' = IF env.useMock \/ Len(srcs) = 0 THEN "mock" ELSE "loop"
    /\ next' = 1
    /\ UNCHANGED <<impl, env, out>>
    /\ UNCHANGED avars
    /\ UNCHANGED ovars

\* return searchAllMock(query, options)
MockAllReturn ==
    /\ pc = "mock"
    /\ out' = searchAllMock(query, options)
    /\ pc' = "done"
    /\ UNCHANGED <<impl, query, sources, options, env, next, calls, answers, results>>
    /\ UNCHANGED avars
    /\ UNCHANGED ovars

\* for (const source of sources): the search of the next element starts
\* and searchGigs awaits it
SeqStart ==
    /\ pc = "loop"
    /\ next <= Len(sources)
    /\ calls[next] = "notstarted"
    /\ calls' = [calls EXCEPT ![next] = "pending"]
    /\ UNCHANGED <<impl, query, sources, options, env, pc, next, answers, results, out>>
    /\ UNCHANGED avars
    /\ UNCHANGED ovars

\* the awaited search settles: results.push(result), next iteration
SeqSettle ==
    /\ pc = "loop"
    /\ next <= Len(sources)
    /\ calls[next] = "pending"
    /\ \E resp \in IF ManagerFetches(impl, sources[next], env)
                   THEN SampleResponses(sources[next]) ELSE {NoResponse} :
          LET r == ManagerResult(impl, sources[next], query, options, env, resp)
          IN  /\ answers' = [answers EXCEPT ![next] = resp]
              /\ results' = [results EXCEPT ![next] = r]
              /\ out' = Append(out, r)
    /\ calls' = [calls EXCEPT ![next] = "settled"]
    /\ next' = next + 1
    /\ UNCHANGED <<impl, query, sources, options, env, pc>>
    /\ UNCHANGED avars
    /\ UNCHANGED ovars

\* the loop is over: return results
SeqReturn ==
    /\ pc = "loop"
    /\ next > Len(sources)
    /\ pc' = "done"
    /\ UNCHANGED <<impl, query, sources, options, env, next, calls, answers, results, out>>
    /\ UNCHANGED avars
    /\ UNCHANGED ovars

\* POST of the search route after `await searchGigs(...)`: the gigs of all
\* results flattened, and the results with success = false as errors
RouteRespond ==
    /\ pc = "done"
    /\ response = NoRouteResponse
    /\ LET allGigs == Flatten([i \in 1..Len(out) |-> out[i].gigs])
           failed == SelectSeq(out, LAMBDA r : ~r.success)
           errors == [i \in 1..Len(failed) |->
                        [source |-> failed[i].source, error |-> failed[i].error]]
       IN  response' = [success |-> TRUE, gigs |-> allGigs,
                        totalCount |-> Len(allGigs), errors |-> errors]
    /\ UNCHANGED <<avars, svars, fvars, rvars, bvars, tvars>>

Next ==
    \/ CallSearchGigs
    \/ MapStep
    \/ AwaitAll
    \/ \E i \in 1..MaxSources : Settle(i)
    \/ Return
    \/ CallSearchGigsSeq
    \/ MockAllReturn
    \/ SeqStart
    \/ SeqSettle
    \/ SeqReturn
    \/ RouteRespond

Spec == Init /\ [][Next]_vars

\* The event loop runs every continuation that is ready, and every
\* request that was issued is answered (the hypothesis of the join's
\* liveness); nothing obliges a caller to call searchGigs.
FairSpec ==
    /\ Spec
    /\ WF_vars(MapStep) /\ WF_vars(AwaitAll) /\ WF_vars(Return)
    /\ \A i \in 1..MaxSources : WF_vars(Settle(i))
    /\ WF_vars(MockAllReturn) /\ WF_vars(SeqStart) /\ WF_vars(SeqSettle)
    /\ WF_vars(SeqReturn)

(***************************************************************************)
(* Claims about one adapter call (checked under SpecAdapter).              *)
(***************************************************************************)
AdapterDone == apc = "done"

\* the upstream failed: a non-2xx status, a body that is no JSON or has the
\* wrong shape, a rejected fetch; for the places search, every category
\* search failed
UpstreamFailed ==
    /\ AdapterDone
    /\ arequests > 0
    /\ \/ aresp.kind \in {"http_error", "bad_json", "wrong_shape", "throws"}
       \/ /\ aresp.kind = "places"
          /\ \A c \in 1..Len(aresp.cats) : aresp.cats[c].error

IsFailureResult(r) == r.success = FALSE /\ r.gigs = <<>> /\ r.error # NoError

\* C1: every adapter call ends in a ScrapeResult of its own source, and on
\* every failing upstream outcome that result has success = false, no gigs
\* and a non-empty error string.
C1_FailureIsReported ==
    /\ AdapterDone => aresult.source = adapter
    /\ UpstreamFailed => IsFailureResult(aresult)

CredentialAbsent ==
    \/ adapter \in {"indeed", "linkedin"} /\ ~aenv.rapidKey
    \/ adapter = "bountyboard" /\ ~aenv.placesKey

\* C7: a search made while the adapter's credential is absent issues no
\* request and returns success = false, no gigs and a non-empty error.
C7_MissingCredentialFails ==
    (AdapterDone /\ CredentialAbsent) =>
        (arequests = 0 /\ IsFailureResult(aresult))

\* the number of raw items of the answer
RawCount == IF aresp.kind \in {"ok"} THEN Len(aresp.items) ELSE 0

\* C8 (as stated): with N raw items and 0 < limit = k < N the adapter
\* returns exactly k records, in upstream order.
C8_LimitExact ==
    (AdapterDone /\ aresp.kind = "ok" /\ aoptions.limit > 0
        /\ aoptions.limit < RawCount) =>
        /\ Len(aresult.gigs) = aoptions.limit
        /\ \A i, j \in 1..Len(aresult.gigs) :
              i < j => aresult.gigs[i].ext < aresult.gigs[j].ext

\* the raw items that pass the filters the adapter applies before it
\* truncates: the metadata skip and the language filter of RemoteOK, the
\* language filter of Arbeitnow, the query match of Himalayas, the
\* publisher filter of the "linkedin" JSearch instance
PassesOwnFilters(i) ==
    LET job == aresp.items[i]
        lang == aoptions.language = "" \/ isInLanguage(job.text, aoptions.language)
    IN  CASE adapter = "remoteok" -> i > 1 /\ lang
          [] adapter = "arbeitnow" -> lang
          [] adapter = "himalayas" -> aquery = "" \/ job.web
          [] adapter = "linkedin" -> job.pub = "LinkedIn"
          [] OTHER -> TRUE

Survivors == Cardinality({i \in 1..RawCount : PassesOwnFilters(i)})

\* C8 (amended): with limit = k > 0 every adapter returns at most k
\* records, in the relative order of their upstream items; an adapter that
\* maps a fetched job list returns exactly k when at least k raw items pass
\* its own filters and no minBudget filter runs after the truncation.
C8_LimitTruncates ==
    (AdapterDone /\ aresult.success /\ aoptions.limit > 0) =>
        /\ Len(aresult.gigs) <= aoptions.limit
        /\ \A i, j \in 1..Len(aresult.gigs) :
              i < j => aresult.gigs[i].ext < aresult.gigs[j].ext
        /\ (aresp.kind = "ok" /\ Survivors >= aoptions.limit
                /\ aoptions.minBudget = 0)
              => Len(aresult.gigs) = aoptions.limit

\* the limit cut a longer list: more raw items pass than the limit admits
C8_Witness ==
    /\ AdapterDone /\ aresp.kind = "ok"
    /\ aoptions.limit > 0 /\ Survivors > aoptions.limit
    /\ Len(aresult.gigs) = aoptions.limit

\* the records of the same call made with minBudget and maxBudget unset
UnfilteredGigs ==
    AdapterSearch(adapter, aquery,
                  [aoptions EXCEPT !.minBudget = 0, !.maxBudget = 0],
                  aenv, aresp).gigs

InSeq(x, s) == \E i \in 1..Len(s) : s[i] = x

\* no budget, or no bound for any of the filters that are set
BudgetUnknown(g) ==
    \/ ~g.budget.present
    \/ /\ aoptions.minBudget # 0 => g.budget.min = 0
       /\ aoptions.maxBudget # 0 => g.budget.max = 0

\* C9: a record without budget, or without the bound a budget filter
\* reads, is returned whenever it is returned with the filters unset.
C9_UnknownBudgetKept ==
    AdapterDone =>
        \A i \in 1..Len(UnfilteredGigs) :
            BudgetUnknown(UnfilteredGigs[i])
                => InSeq(UnfilteredGigs[i], aresult.gigs)

\* C10: with minBudget set no returned record has budget.min below it,
\* with maxBudget set no returned record has budget.max above it.
C10_OutOfRangeRemoved ==
    AdapterDone =>
        \A i \in 1..Len(aresult.gigs) :
            LET b == aresult.gigs[i].budget
            IN  /\ (aoptions.minBudget # 0 /\ b.present /\ b.min # 0)
                      => b.min >= aoptions.minBudget
                /\ (aoptions.maxBudget # 0 /\ b.present /\ b.max # 0)
                      => b.max <= aoptions.maxBudget

(***************************************************************************)
(* Claims about searchGigs (checked under Spec and FairSpec).              *)
(***************************************************************************)
Returned == pc = "done"

\* the search of element i got a non-2xx answer or its fetch threw; for the
\* places search, every category search did
FailedAnswer(i) ==
    \/ answers[i].kind \in {"http_error", "throws"}
    \/ /\ answers[i].kind = "places"
       /\ \A c \in 1..Len(answers[i].cats) : answers[i].cats[c].error

\* the search of element i fetched and was answered with a valid payload
OkAnswer(i) ==
    \/ answers[i].kind = "ok"
    \/ /\ answers[i].kind = "places"
       /\ \A c \in 1..Len(answers[i].cats) : ~answers[i].cats[c].error

FailedCalls == {i \in 1..Len(sources) : FailedAnswer(i)}

\* C2: when exactly one requested source fails upstream and the others are
\* answered, the returned array holds the others' successful results
\* unchanged and exactly one success = false result, with no gigs, for the
\* failing source.
C2_PartialFailureIsolated ==
    (/\ Returned
     /\ Cardinality(FailedCalls) = 1
     /\ \A i \in 1..Len(sources) : FailedAnswer(i) \/ OkAnswer(i)) =>
        /\ Len(out) = Len(sources)
        /\ \A i \in 1..Len(sources) :
              IF FailedAnswer(i)
              THEN /\ out[i].source = sources[i]
                   /\ ~out[i].success
                   /\ out[i].gigs = <<>>
              ELSE /\ out[i].success
                   /\ out[i] = ManagerResult(impl, sources[i], query, options,
                                             env, answers[i])

\* C3: searchGigs returns one result per element of sources, in the order
\* of sources.
C3_OneResultPerSource ==
    Returned =>
        /\ Len(out) = Len(sources)
        /\ \A i \in 1..Len(sources) : out[i].source = sources[i]

\* searchGigs is suspended on the search of some source
Waiting ==
    \/ pc = "await"
    \/ pc = "loop" /\ \E i \in 1..Len(sources) : calls[i] = "pending"

\* C4: whenever searchGigs waits for a search to finish, the search of
\* every requested source has been started.
C4_AllStartedBeforeWaiting ==
    Waiting => \A i \in 1..Len(sources) : calls[i] # "notstarted"

\* searchGigs was called and has not returned
Running == pc \in {"map", "await", "loop", "mock"}

\* C5: searchGigs returns only when no started search is still pending,
\* with the result of every settled search in its array, and a call of
\* searchGigs whose searches all settle returns.
C5_JoinAll ==
    /\ [](Returned =>
            \A i \in 1..Len(sources) :
                /\ calls[i] # "pending"
                /\ calls[i] = "settled" => InSeq(results[i], out))
    /\ Running ~> Returned

\* a parallel call returned after a failed and a successful search settled
C5_Witness ==
    /\ Returned /\ impl = "parallel" /\ AllSettled
    /\ Len(sources) >= 2
    /\ ~out[1].success
    /\ \E i \in 2..Len(out) : out[i].success /\ out[i].gigs # <<>>

\* C6: a requested tag without a registered adapter gets, at its place in
\* the returned array, a success = false result with no gigs and the
\* "not implemented" error that names the tag and the registered adapters.
C6_UnregisteredTagFails ==
    Returned =>
        \A i \in 1..Len(sources) :
            sources[i] \notin Registered(impl) =>
                /\ i <= Len(out)
                /\ out[i].source = sources[i]
                /\ IsFailureResult(out[i])
                /\ impl = "parallel" => out[i] = NotImplemented(sources[i])

(***************************************************************************)
(* Category resolution of the opportunity adapter:                         *)
(* getBusinessTypesForService (src/unnamed/part_001) and                   *)
(* getBusinessTypesForQuery (src/unnamed/part_003), each with the keyword  *)
(* table of its file.                                                      *)
(***************************************************************************)
SERVICE_TO_BUSINESS_SEARCH ==
    << [keyword |-> "ai",
        types |-> <<"law firm", "accounting firm", "medical practice", "real estate agency", "insurance agency">>],
       [keyword |-> "artificial intelligence",
        types |-> <<"law firm", "accounting firm", "medical practice", "consulting firm">>],
       [keyword |-> "machine learning",
        types |-> <<"e-commerce", "retail", "marketing agency", "financial services">>],
       [keyword |-> "chatbot",
        types |-> <<"restaurant", "hotel", "e-commerce", "customer service", "real estate">>],
       [keyword |-> "automation",
        types |-> <<"law firm", "accounting", "real estate", "insurance", "medical office">>],
       [keyword |-> "data",
        types |-> <<"retail", "restaurant", "gym", "salon", "medical practice">>],
       [keyword |-> "analytics",
        types |-> <<"e-commerce", "restaurant", "retail", "gym", "salon">>],
       [keyword |-> "web",
        types |-> <<"salon", "restaurant", "dentist", "gym", "spa", "contractor">>],
       [keyword |-> "website",
        types |-> <<"salon", "restaurant", "dentist", "lawyer", "plumber", "contractor">>],
       [keyword |-> "design",
        types |-> <<"restaurant", "boutique", "salon", "bakery", "cafe", "florist">>],
       [keyword |-> "app",
        types |-> <<"restaurant", "gym", "salon", "medical practice", "retail">>],
       [keyword |-> "seo",
        types |-> <<"restaurant", "dentist", "lawyer", "plumber", "contractor", "salon">>],
       [keyword |-> "marketing",
        types |-> <<"restaurant", "gym", "salon", "retail", "spa">>],
       [keyword |-> "social",
        types |-> <<"restaurant", "cafe", "boutique", "salon", "bakery", "gym">>],
       [keyword |-> "content",
        types |-> <<"law firm", "medical practice", "consulting", "real estate", "financial">>],
       [keyword |-> "video",
        types |-> <<"restaurant", "gym", "salon", "real estate", "retail">>],
       [keyword |-> "booking",
        types |-> <<"salon", "spa", "dentist", "doctor", "fitness", "consultant">>],
       [keyword |-> "schedule",
        types |-> <<"salon", "consultant", "therapist", "tutor", "contractor">>],
       [keyword |-> "crm",
        types |-> <<"real estate", "insurance", "consultant", "contractor", "law firm">>],
       [keyword |-> "email",
        types |-> <<"retail", "restaurant", "service", "gym", "salon">>],
       [keyword |-> "ecommerce",
        types |-> <<"boutique", "retail", "bakery", "artisan", "florist">>],
       [keyword |-> "store",
        types |-> <<"boutique", "retail", "gift shop", "bakery">>],
       [keyword |-> "shop",
        types |-> <<"boutique", "florist", "bakery", "craft">>],
       [keyword |-> "payment",
        types |-> <<"restaurant", "salon", "contractor", "consultant">>] >>

\* the table of src/unnamed/part_003
SERVICE_TO_BUSINESS_SEARCH_3 ==
    << [keyword |-> "web",
        types |-> <<"salon", "restaurant", "dentist", "gym", "spa">>],
       [keyword |-> "website",
        types |-> <<"salon", "restaurant", "dentist", "lawyer", "plumber">>],
       [keyword |-> "design",
        types |-> <<"restaurant", "boutique", "salon", "bakery", "cafe">>],
       [keyword |-> "seo",
        types |-> <<"restaurant", "dentist", "lawyer", "plumber", "contractor">>],
       [keyword |-> "marketing",
        types |-> <<"restaurant", "gym", "salon", "retail">>],
       [keyword |-> "social",
        types |-> <<"restaurant", "cafe", "boutique", "salon", "bakery">>],
       [keyword |-> "booking",
        types |-> <<"salon", "spa", "dentist", "doctor", "fitness">>],
       [keyword |-> "schedule",
        types |-> <<"salon", "consultant", "therapist", "tutor">>],
       [keyword |-> "appointment",
        types |-> <<"dentist", "doctor", "salon", "spa", "clinic">>],
       [keyword |-> "chatbot",
        types |-> <<"restaurant", "hotel", "ecommerce">>],
       [keyword |-> "automation",
        types |-> <<"real estate", "insurance", "agency">>],
       [keyword |-> "crm",
        types |-> <<"real estate", "insurance", "consultant">>],
       [keyword |-> "email",
        types |-> <<"retail", "restaurant", "service">>],
       [keyword |-> "ecommerce",
        types |-> <<"boutique", "retail", "bakery", "artisan">>],
       [keyword |-> "store",
        types |-> <<"boutique", "retail", "gift shop">>],
       [keyword |-> "shop",
        types |-> <<"boutique", "florist", "bakery">>] >>

\* The queries the resolution is called with: the lowercased query string
\* and the table keywords that are substrings of it (every keyword alone,
\* queries of several keywords, and queries without any).
ServiceQueries ==
    {  [raw |-> "ai", has |-> {"ai"}],
       [raw |-> "artificial intelligence", has |-> {"artificial intelligence"}],
       [raw |-> "machine learning", has |-> {"machine learning"}],
       [raw |-> "chatbot", has |-> {"chatbot"}],
       [raw |-> "automation", has |-> {"automation"}],
       [raw |-> "data", has |-> {"data"}],
       [raw |-> "analytics", has |-> {"analytics"}],
       [raw |-> "web", has |-> {"web"}],
       [raw |-> "website", has |-> {"web", "website"}],
       [raw |-> "design", has |-> {"design"}],
       [raw |-> "app", has |-> {"app"}],
       [raw |-> "seo", has |-> {"seo"}],
       [raw |-> "marketing", has |-> {"marketing"}],
       [raw |-> "social", has |-> {"social"}],
       [raw |-> "content", has |-> {"content"}],
       [raw |-> "video", has |-> {"video"}],
       [raw |-> "booking", has |-> {"booking"}],
       [raw |-> "schedule", has |-> {"schedule"}],
       [raw |-> "crm", has |-> {"crm"}],
       [raw |-> "email", has |-> {"ai", "email"}],
       [raw |-> "ecommerce", has |-> {"ecommerce"}],
       [raw |-> "store", has |-> {"store"}],
       [raw |-> "shop", has |-> {"shop"}],
       [raw |-> "payment", has |-> {"payment"}],
       [raw |-> "appointment", has |-> {"app", "appointment"}],
       [raw |-> "web seo", has |-> {"web", "seo"}],
       [raw |-> "website design", has |-> {"web", "website", "design"}],
       [raw |-> "email marketing", has |-> {"ai", "marketing", "email"}],
       [raw |-> "booking app", has |-> {"app", "booking"}],
       [raw |-> "xyzzy unmatched term", has |-> {}],
       [raw |-> "salon", has |-> {}],
       [raw |-> "", has |-> {}] }

\* serviceQuery.includes(keyword)
Includes(q, keyword) == keyword \in q.has

Elements(s) == {s[i] : i \in 1..Len(s)}

RECURSIVE AddAll(_, _)
\* types.forEach(t => matchedTypes.add(t)): a Set keeps insertion order
AddAll(matched, types) ==
    IF Len(types) = 0 THEN matched
    ELSE AddAll(IF Head(types) \in Elements(matched) THEN matched
                ELSE Append(matched, Head(types)),
                Tail(types))

RECURSIVE MatchedTypes(_, _, _)
\* the loop over Object.entries(table), from entry k on
MatchedTypes(q, tab, k) ==
    IF k > Len(tab) THEN <<>>
    ELSE LET rest == MatchedTypes(q, tab, k + 1)
         IN  IF Includes(q, tab[k].keyword)
             THEN AddAll(tab[k].types, rest)
             ELSE rest

getBusinessTypesForService(q) ==
    LET matchedTypes == MatchedTypes(q, SERVICE_TO_BUSINESS_SEARCH, 1)
    IN  IF Len(matchedTypes) = 0
        THEN <<q.raw, "small business", "local business">>
        ELSE matchedTypes

getBusinessTypesForQuery(q) ==
    LET matchedTypes == MatchedTypes(q, SERVICE_TO_BUSINESS_SEARCH_3, 1)
    IN  IF Len(matchedTypes) = 0
        THEN <<"salon", "restaurant", "dentist">>
        ELSE matchedTypes

(***************************************************************************)
(* Calls of the pure functions (specification SpecPure).                   *)
(***************************************************************************)
\* a text, as the number of matches each language pattern finds in it
Texts == [de: 0..MaxMatches, fr: 0..MaxMatches, es: 0..MaxMatches]

TargetLanguages == {"en", "de", "fr", "es"}

\* the arguments each function is called with
(***************************************************************************)
(* calculateOpportunityScore (src/unnamed/part_009).  Severities, ratings  *)
(* and scores are counted in tenths: calculateSeverity rounds to one       *)
(* decimal and keeps the result within 0..10.                              *)
(***************************************************************************)
\* PainPoint.severity, in tenths
Severities == {0, 1, 25, 60, 100}

\* painPoints: the severities of the pain points
PainPointLists == UNION {[1..n -> Severities] : n \in 0..MaxPainPoints}

\* missingFeatures: how many have confidence > 0.7 and how many have not
MissingFeatureLists == [high : 0..MaxConfident, low : 0..1]

\* business.reviewCount
ReviewCounts == {0, 19, 20, 50, 100}

\* business.rating, in tenths
Ratings == {30, 35, 40, 50}

RECURSIVE Sum(_)
\* painPoints.reduce((sum, pp) => sum + pp.severity, 0)
Sum(severities) ==
    IF severities = <<>> THEN 0
    ELSE Head(severities) + Sum(Tail(severities))

\* the business profile contribution, in points
ProfileScore(business) ==
    (IF business.reviewCount >= 100 THEN 10
     ELSE IF business.reviewCount >= 50 THEN 7
     ELSE IF business.reviewCount >= 20 THEN 5
     ELSE 0)
    + (IF business.rating < 35 THEN 10
       ELSE IF business.rating < 40 THEN 5
       ELSE 0)

calculateOpportunityScoreByAverage(painPoints, missingFeatures, business) ==
    LET painPointScore == IF painPoints = <<>> THEN 0
                          ELSE Sum(painPoints) \div Len(painPoints)
        score == Min(painPointScore * 3, 500)
                 + 10 * Min(missingFeatures.high * 5, 30)
                 + 10 * ProfileScore(business)
    IN  [score |-> Min(score, 1000),
         priority |-> IF score >= 700 THEN "high"
                      ELSE IF score >= 400 THEN "medium" ELSE "low"]

\* the returned score in tenths of a point, and the priority
calculateOpportunityScore(painPoints, missingFeatures, business) ==
    LET painPointScore == Sum(painPoints)
        missingScore == missingFeatures.high * 5
        score == Min(painPointScore * 3, 500)
                 + 10 * Min(missingScore, 30)
                 + 10 * ProfileScore(business)
    IN  [score |-> Min(score, 1000),
         priority |-> IF score >= 700 THEN "high"
                      ELSE IF score >= 400 THEN "medium" ELSE "low"]


PureInputs(f) ==
    CASE f = "detectLanguage" -> {[text |-> t] : t \in Texts}
      [] f = "isInLanguage" ->
            {[text |-> t, targetLang |-> l] : t \in Texts, l \in TargetLanguages}
      [] f \in {"getBusinessTypesForService", "getBusinessTypesForQuery"} ->
            {[serviceQuery |-> q] : q \in ServiceQueries}
      [] f = "calculateOpportunityScore" ->
            {[painPoints |-> pp, missingFeatures |-> mf,
              business |-> [reviewCount |-> rc, rating |-> rt]] :
                pp \in PainPointLists, mf \in MissingFeatureLists,
                rc \in ReviewCounts, rt \in Ratings}

PureFunctions ==
    {"detectLanguage", "isInLanguage",
     "getBusinessTypesForService", "getBusinessTypesForQuery",
     "calculateOpportunityScore"}

InitPure ==
    /\ AdapterOff
    /\ ManagerOff
    /\ fname \in PureFunctions
    /\ fin \in PureInputs(fname)
    /\ fpc = "ready"
    /\ fout = <<>>
    /\ RepeatOff
    /\ RouteOff
    /\ BountyOff
    /\ StoreOff

CallDetectLanguage ==
    /\ fpc = "ready" /\ fname = "detectLanguage"
    /\ fout' = detectLanguage(fin.text)
    /\ fpc' = "done"
    /\ UNCHANGED <<fname, fin>>
    /\ UNCHANGED <<avars, svars, rvars, pvars, bvars, tvars>>

CallIsInLanguage ==
    /\ fpc = "ready" /\ fname = "isInLanguage"
    /\ fout' = isInLanguage(fin.text, fin.targetLang)
    /\ fpc' = "done"
    /\ UNCHANGED <<fname, fin>>
    /\ UNCHANGED <<avars, svars, rvars, pvars, bvars, tvars>>

CallGetBusinessTypesForService ==
    /\ fpc = "ready" /\ fname = "getBusinessTypesForService"
    /\ fout' = getBusinessTypesForService(fin.serviceQuery)
    /\ fpc' = "done"
    /\ UNCHANGED <<fname, fin>>
    /\ UNCHANGED <<avars, svars, rvars, pvars, bvars, tvars>>

CallGetBusinessTypesForQuery ==
    /\ fpc = "ready" /\ fname = "getBusinessTypesForQuery"
    /\ fout' = getBusinessTypesForQuery(fin.serviceQuery)
    /\ fpc' = "done"
    /\ UNCHANGED <<fname, fin>>
    /\ UNCHANGED <<avars, svars, rvars, pvars, bvars, tvars>>

CallCalculateOpportunityScore ==
    /\ fpc = "ready" /\ fname = "calculateOpportunityScore"
    /\ fout' = calculateOpportunityScore(fin.painPoints, fin.missingFeatures,
                                         fin.business)
    /\ fpc' = "done"
    /\ UNCHANGED <<fname, fin>>
    /\ UNCHANGED <<avars, svars, rvars, pvars, bvars, tvars>>

NextPure ==
    \/ CallDetectLanguage
    \/ CallIsInLanguage
    \/ CallGetBusinessTypesForService
    \/ CallGetBusinessTypesForQuery
    \/ CallCalculateOpportunityScore

SpecPure == InitPure /\ [][NextPure]_vars

(***************************************************************************)
(* Claims about the pure functions (checked under SpecPure).               *)
(***************************************************************************)
Called(f) == fpc = "done" /\ fname = f

\* C11: for target "en" isInLanguage is true exactly when the text is
\* detected as "en"; for any other target T exactly when it is detected as
\* T or as "en".
C11_LanguageAsymmetry ==
    Called("isInLanguage") =>
        LET detected == detectLanguage(fin.text)
        IN  fout = IF fin.targetLang = "en"
                   THEN detected = "en"
                   ELSE detected \in {fin.targetLang, "en"}

\* a text detected as "en" passes the target "de"
C11_Witness ==
    /\ Called("isInLanguage")
    /\ fin.targetLang = "de" /\ fin.text.de = 0 /\ fin.text.fr = 0 /\ fin.text.es = 0
    /\ fout = TRUE

\* the languages whose count is above 3 and above both other counts
Winners(counts) ==
    {l \in {"de", "fr", "es"} :
        /\ counts[l] > 3
        /\ \A o \in {"de", "fr", "es"} \ {l} : counts[l] > counts[o]}

\* C12: detectLanguage returns de, fr or es exactly when that language's
\* count is above 3 and above both other counts, "en" in every other case.
C12_DetectByStrictMajority ==
    Called("detectLanguage") =>
        /\ fout \in {"de", "fr", "es", "en"}
        /\ \A l \in {"de", "fr", "es"} : (fout = l) <=> (l \in Winners(fin.text))
        /\ (fout = "en") <=> (Winners(fin.text) = {})

\* the two highest counts tie above the threshold: the answer is "en"
C12_Witness ==
    /\ Called("detectLanguage")
    /\ fin.text.de = 4 /\ fin.text.fr = 4 /\ fin.text.es = 0
    /\ fout = "en"

(***************************************************************************)
(* The same adapter call made twice against the same upstream state        *)
(* (specification SpecRepeat).                                             *)
(***************************************************************************)
\* the options of the repeated call: a limit or none
RepeatOptions ==
    {o \in SearchOptions : o.minBudget = 0 /\ o.maxBudget = 0 /\ o.language = ""}

InitRepeat ==
    /\ ManagerOff
    /\ PureOff
    /\ adapter \in Adapters
    /\ aquery \in AdapterQueries(adapter)
    /\ aoptions \in RepeatOptions
    /\ aenv \in AdapterEnvs(adapter)
    /\ apc = "ready"
    /\ aresp = NoResponse
    /\ aresult = NoResult
    /\ arequests = 0
    /\ now = 0
    /\ aprev = NoResult
    /\ RouteOff
    /\ BountyOff
    /\ StoreOff

\* time passes after the first call returned
Tick ==
    /\ apc = "done"
    /\ now < MaxClock
    /\ now' = now + 1
    /\ UNCHANGED aprev
    /\ UNCHANGED <<avars, svars, fvars, pvars, bvars, tvars>>

\* search(query, options) is called again and the upstream gives the
\* answer it gave before
AdapterRepeat ==
    /\ apc = "done"
    /\ aprev' = aresult
    /\ aresult' = AdapterSearch(adapter, aquery, aoptions, aenv, aresp)
    /\ arequests' = arequests + (IF IssuesFetch(adapter, aenv) THEN 1 ELSE 0)
    /\ apc' = "repeated"
    /\ UNCHANGED <<adapter, aquery, aoptions, aenv, aresp, now>>
    /\ UNCHANGED <<svars, fvars, pvars, bvars, tvars>>

NextRepeat == AdapterStart \/ AdapterRespond \/ Tick \/ AdapterRepeat

SpecRepeat == InitRepeat /\ [][NextRepeat]_vars

\* the ids of the records of a result, in order
Ids(r) == [i \in 1..Len(r.gigs) |-> r.gigs[i].id]

\* C13: two calls of an adapter with the same query and options against
\* the same upstream state return records with the same ids.
C13_SameIdsOnRepeat ==
    apc = "repeated" => Ids(aresult) = Ids(aprev)

(***************************************************************************)
(* More claims about one adapter call (checked under SpecAdapter).         *)
(***************************************************************************)
\* C14: each gig of the ScrapeResult an adapter returns carries the source
\* of that ScrapeResult.
C14_GigSourceIsResultSource ==
    AdapterDone =>
        \A i \in 1..Len(aresult.gigs) : aresult.gigs[i].source = aresult.source

(***************************************************************************)
(* Claims about the search route (checked under Spec).                     *)
(***************************************************************************)
Responded == response # NoRouteResponse

\* the search of element i could not obtain data: its upstream failed, or
\* the adapter returned success = false
CouldNotObtain(i) ==
    /\ calls[i] = "settled"
    /\ FailedAnswer(i) \/ ~results[i].success

\* C15: the response of the search route lists, in errors, every requested
\* source that could not obtain data from its upstream, with its non-empty
\* error string.
C15_FailuresAreListed ==
    Responded =>
        \A i \in 1..Len(sources) :
            CouldNotObtain(i) =>
                \E e \in 1..Len(response.errors) :
                    /\ response.errors[e].source = sources[i]
                    /\ response.errors[e].error = results[i].error
                    /\ response.errors[e].error # NoError

(***************************************************************************)
(* Claims about the category resolution (checked under SpecPure).          *)
(***************************************************************************)
CategoriesResolved ==
    Called("getBusinessTypesForService") \/ Called("getBusinessTypesForQuery")

\* the keywords of the table the called function reads
TableKeywords ==
    LET tab == IF fname = "getBusinessTypesForService"
               THEN SERVICE_TO_BUSINESS_SEARCH ELSE SERVICE_TO_BUSINESS_SEARCH_3
    IN  {tab[k].keyword : k \in 1..Len(tab)}

\* C16: the category resolution returns a non-empty list, and for a query
\* that contains no keyword of the table the list contains the query.
C16_NeverZeroCategories ==
    CategoriesResolved =>
        /\ Len(fout) >= 1
        /\ (fin.serviceQuery.has \cap TableKeywords = {})
              => fin.serviceQuery.raw \in Elements(fout)

(***************************************************************************)
(* BountyBoardScraper.search step by step (specification SpecBounty):      *)
(* src/unnamed/part_001 (version "service") and src/unnamed/part_003       *)
(* (version "query").  The places search and the business analysis are     *)
(* collaborators: each request is a step whose answer is chosen when it    *)
(* arrives.                                                                *)
(***************************************************************************)
BountyVersions == {"service", "query"}

\* the queries of the step-by-step call: one with more than three matched
\* business types, one without any keyword
BountyQueries ==
    {q \in ServiceQueries : q.raw \in {"web", "xyzzy unmatched term"}}

\* options.limit: absent or 2
BountyLimits == {0, 2}

\* businessTypes
BusinessTypes(version, q) ==
    IF version = "service" THEN getBusinessTypesForService(q)
    ELSE getBusinessTypesForQuery(q)

\* businessTypes.slice(0, 3)
CappedTypes(types) == Slice(types, MaxCategories)

\* return { source, success: true, gigs: limitedGigs, error: errors.join }
Finish(b) ==
    [b EXCEPT !.pc = "done",
              !.result = [success |-> TRUE,
                          gigs |-> IF b.limit # 0 THEN Min(b.limit, b.pushed)
                                   ELSE b.pushed,
                          error |-> b.errors > 0]]

\* the next iteration of the loop over the business types: its places search
NextCategory(b) ==
    IF b.cat < Len(CappedTypes(b.types))
    THEN [b EXCEPT !.cat = @ + 1, !.pc = "search", !.searches = @ + 1,
                   !.n = 0, !.idx = 0]
    ELSE Finish(b)

UncappedBusinesses(n) == n

\* searchResult.businesses.slice(0, 3).length
CappedBusinesses(n) == Min(n, MaxPerCategory)

NextBusinessFirstOnly(b) ==
    IF b.idx < Min(b.n, 1)
    THEN [b EXCEPT !.idx = @ + 1, !.pc = "details", !.details = @ + 1,
                   !.log[b.cat].analyzed = @ + 1]
    ELSE NextCategory(b)

\* the next iteration of the loop over the businesses of the category: its
\* getBusinessDetails request
NextBusiness(b) ==
    IF b.idx < CappedBusinesses(b.n)
    THEN [b EXCEPT !.idx = @ + 1, !.pc = "details", !.details = @ + 1,
                   !.log[b.cat].analyzed = @ + 1]
    ELSE NextCategory(b)

AfterThrowAbortCategory(b) == NextCategory([b EXCEPT !.errors = @ + 1])

\* catch (e) { console.error(...) } inside the loop over the businesses
AfterThrow(b) == NextBusiness(b)

\* The analysis of a business is done: createServiceOpportunity always
\* returns a record; analyzeBusinessOpportunity returns null when there
\* are no suggestions, no missing features and no pain points (the
\* suggestions are derived from the other two).  For a business without
\* website part_003 makes a missing feature and part_001 makes none.
Rendered(b, missing) ==
    LET content == b.painPoints \/ missing
        made == b.version = "service" \/ content
    IN  [b EXCEPT !.pc = "sleep",
                  !.pushed = IF made THEN @ + 1 ELSE @,
                  !.ncontent = IF content THEN @ + 1 ELSE @,
                  !.nzero = IF content THEN @ ELSE @ + 1]

\* search(query, options) is called
InitBounty ==
    /\ AdapterOff /\ ManagerOff /\ PureOff /\ RepeatOff /\ RouteOff /\ StoreOff
    /\ \E v \in BountyVersions, c \in BOOLEAN, q \in BountyQueries, l \in BountyLimits :
          bb = [version |-> v, configured |-> c, query |-> q, limit |-> l,
                pc |-> "start", types |-> <<>>, cat |-> 0, n |-> 0, idx |-> 0,
                painPoints |-> FALSE, website |-> FALSE,
                searches |-> 0, details |-> 0,
                pushed |-> 0, errors |-> 0,
                nfail |-> 0, nzero |-> 0, ncontent |-> 0,
                log |-> <<>>,
                result |-> [success |-> FALSE, gigs |-> 0, error |-> FALSE]]

\* isConfigured() check, category resolution, first places search
BountyResolve ==
    /\ bb.pc = "start"
    /\ bb' = IF ~bb.configured
             THEN [bb EXCEPT !.pc = "done",
                             !.result = [success |-> TRUE, gigs |-> 1, error |-> FALSE]]
             ELSE NextCategory([bb EXCEPT !.types = BusinessTypes(bb.version, bb.query)])
    /\ UNCHANGED <<avars, svars, fvars, rvars, pvars, tvars>>

\* searchBusinesses answers: an error, a rejection, or a list of businesses
BountySearchRespond ==
    /\ bb.pc = "search"
    /\ \E kind \in {"error", "throws", "ok"}, k \in 0..MaxBusinesses :
          /\ kind # "ok" => k = 0
          /\ LET logged == [bb EXCEPT !.log = Append(@, [kind |-> kind, n |-> k,
                                                        analyzed |-> 0])]
             IN  bb' = IF kind = "ok"
                       THEN NextBusiness([logged EXCEPT !.n = k, !.idx = 0])
                       ELSE NextCategory([logged EXCEPT !.errors = @ + 1])
    /\ UNCHANGED <<avars, svars, fvars, rvars, pvars, tvars>>

\* getBusinessDetails answers: it rejects, gives no business, or gives the
\* business with or without a website and reviews with or without pain points
BountyDetailsRespond ==
    /\ bb.pc = "details"
    /\ \E d \in {"throws", "nobusiness", "ok"}, w \in BOOLEAN, pp \in BOOLEAN :
          /\ d # "ok" => (~w /\ ~pp)
          /\ bb' = CASE d = "throws" ->
                          AfterThrow([bb EXCEPT !.nfail = @ + 1])
                     [] d = "nobusiness" ->
                          [bb EXCEPT !.nfail = @ + 1, !.pc = "sleep"]
                     [] d = "ok" /\ w ->
                          [bb EXCEPT !.website = TRUE, !.painPoints = pp,
                                     !.pc = "website"]
                     [] OTHER ->
                          Rendered([bb EXCEPT !.website = FALSE, !.painPoints = pp],
                                   bb.version = "query")
    /\ UNCHANGED <<avars, svars, fvars, rvars, pvars, tvars>>

\* analyzeWebsite answers: missing features, none, or it throws (caught)
BountyScanRespond ==
    /\ bb.pc = "website"
    /\ \E scan \in {"missing", "none", "throws"} :
          bb' = Rendered(bb, scan = "missing")
    /\ UNCHANGED <<avars, svars, fvars, rvars, pvars, tvars>>

\* await new Promise(resolve => setTimeout(resolve, 100)) is over
BountySleepDone ==
    /\ bb.pc = "sleep"
    /\ bb' = NextBusiness(bb)
    /\ UNCHANGED <<avars, svars, fvars, rvars, pvars, tvars>>

NextBounty ==
    \/ BountyResolve
    \/ BountySearchRespond
    \/ BountyDetailsRespond
    \/ BountyScanRespond
    \/ BountySleepDone

SpecBounty == InitBounty /\ [][NextBounty]_vars

(***************************************************************************)
(* Claims about one BountyBoardScraper.search call (SpecBounty)            *)
(***************************************************************************)
BountyDone == bb.pc = "done"

C18_PartialBatchIsolation ==
    /\ bb.pushed <= bb.ncontent + bb.nzero
    /\ bb.pushed >= bb.ncontent
    /\ (BountyDone /\ bb.configured) =>
          /\ Len(bb.log) = Min(Len(bb.types), 3)
          /\ \A c \in 1..Len(bb.log) :
                bb.log[c].kind = "ok" => bb.log[c].analyzed = Min(bb.log[c].n, 3)
          /\ bb.details = bb.nfail + bb.ncontent + bb.nzero
          /\ bb.result.success
          /\ bb.result.gigs = IF bb.limit # 0 THEN Min(bb.limit, bb.pushed)
                              ELSE bb.pushed

\* C18 witness: a finished call without limit whose first category search
\* failed, whose second category had 3 businesses analysed of which 2
\* failed, and which returned the record of the third.
C18_Witness ==
    /\ BountyDone
    /\ bb.limit = 0
    /\ Len(bb.log) = 3
    /\ bb.log[1].kind = "error"
    /\ bb.log[2].kind = "ok" /\ bb.log[2].analyzed = 3
    /\ bb.log[3].kind = "throws"
    /\ bb.nfail = 2
    /\ bb.ncontent = 1
    /\ bb.result.gigs = 1

\* C19: a record is rendered for exactly the successfully analysed
\* businesses that have pain points, missing features or suggestions: the
\* number of records equals the number of such businesses.
C19_RecordsOnlyForContent == bb.pushed = bb.ncontent

(***************************************************************************)
(* Claims about calculateOpportunityScore (SpecPure)                       *)
(***************************************************************************)
\* the pain point lists that differ from painPoints by one pain point of
\* higher severity or by one more pain point
MoreSevere(painPoints) ==
    UNION {{[painPoints EXCEPT ![i] = s] :
                s \in {t \in Severities : t >= painPoints[i]}} :
           i \in 1..Len(painPoints)}
    \cup {Append(painPoints, s) : s \in Severities}

\* C20: the score calculateOpportunityScore returns lies in [0, 100], and
\* with the same missing features and business a pain point of higher
\* severity or one more pain point never gives a lower score.
C20_ScoreBoundedAndMonotone ==
    Called("calculateOpportunityScore") =>
        /\ fout.score >= 0
        /\ fout.score <= 1000
        /\ \A pp \in MoreSevere(fin.painPoints) :
              calculateOpportunityScore(pp, fin.missingFeatures, fin.business).score
                 >= fout.score

\* C20 witness: a call with two pain points, the first of severity 2.5,
\* whose score is between the bounds and rises to the pain point cap when
\* that severity rises to 10.
C20_Witness ==
    /\ Called("calculateOpportunityScore")
    /\ Len(fin.painPoints) = 2
    /\ fin.painPoints[1] = 25
    /\ fout.score > 0 /\ fout.score < 1000
    /\ calculateOpportunityScore([fin.painPoints EXCEPT ![1] = 100],
                                 fin.missingFeatures, fin.business).score
          > fout.score

(***************************************************************************)
(* analyzeReviews and calculateSeverity (src/unnamed/part_009),            *)
(* specification SpecReviews.  A review is its rating, whether its text    *)
(* holds one of the words "but", "however", ..., whether its date is       *)
(* within six months, and for each pain point category the number of       *)
(* keywords of the category its text includes.  Its id is its place in     *)
(* the list.  Severities are counted in tenths.                            *)
(***************************************************************************)
\* two of the keys of PAIN_POINT_KEYWORDS, in their order
Categories == <<"booking_issues", "website_problems">>

ReviewSamples ==
    [rating : {3, 4}, but : BOOLEAN, recent : BOOLEAN,
     hits : [Elements(Categories) -> 0..MaxHits]]

\* a review without any keyword
SilentReview ==
    [rating |-> 3, but |-> FALSE, recent |-> FALSE,
     hits |-> [c \in Elements(Categories) |-> 0]]

SilentCounts == {0, 1, MaxSilent}

\* reviews: some sample reviews followed by silent ones
ReviewLists ==
    {front \o [i \in 1..k |-> SilentReview] :
        front \in UNION {[1..n -> ReviewSamples] : n \in 0..MaxReviews},
        k \in SilentCounts}

\* the filter of signalReviews
HasSignal(review) ==
    \/ review.rating <= 3
    \/ review.rating >= 4 /\ review.but

\* data.reviewIds of the category after the loop
ReviewIds(reviews, cat) ==
    {i \in 1..Len(reviews) : HasSignal(reviews[i]) /\ reviews[i].hits[cat] > 0}

RECURSIVE RecentCountFrom(_, _, _)
\* data.recentCount of the category: one more for every keyword of the
\* category that a recent signal review includes
RecentCountFrom(reviews, cat, i) ==
    IF i > Len(reviews) THEN 0
    ELSE (IF HasSignal(reviews[i]) /\ reviews[i].recent
          THEN reviews[i].hits[cat] ELSE 0)
         + RecentCountFrom(reviews, cat, i + 1)

RecentCount(reviews, cat) == RecentCountFrom(reviews, cat, 1)

\* Math.round of the fraction a / b (b > 0, a >= 0)
Round(a, b) == (2 * a + b) \div (2 * b)

Max(a, b) == IF a >= b THEN a ELSE b

\* calculateSeverity, in tenths
calculateSeverity(totalMentions, recentMentions, totalReviews) ==
    LET frequency == Min(Round(200 * totalMentions, Max(totalReviews, 1)), 50)
        recencyBonus == Min(recentMentions * 5, 30)
        countBonus == IF totalMentions >= 10 THEN 20
                      ELSE IF totalMentions >= 5 THEN 10 ELSE 0
    IN  Min(frequency + recencyBonus + countBonus, 100)

\* the pain point of a category with mentions
PainPointOf(reviews, cat) ==
    [category |-> cat,
     reviewIds |-> ReviewIds(reviews, cat),
     severity |-> calculateSeverity(Cardinality(ReviewIds(reviews, cat)),
                                    RecentCount(reviews, cat), Len(reviews)),
     count |-> Cardinality(ReviewIds(reviews, cat))]

RECURSIVE InsertBySeverity(_, _)
\* painPoints.sort((a, b) => b.severity - a.severity), one insertion
InsertBySeverity(sorted, pp) ==
    IF sorted = <<>> THEN <<pp>>
    ELSE IF Head(sorted).severity >= pp.severity
         THEN <<Head(sorted)>> \o InsertBySeverity(Tail(sorted), pp)
         ELSE <<pp>> \o sorted

RECURSIVE PainPointsFrom(_, _)
\* the categories with reviewIds.size > 0, sorted by severity
PainPointsFrom(reviews, k) ==
    IF k > Len(Categories) THEN <<>>
    ELSE LET rest == PainPointsFrom(reviews, k + 1)
         IN  IF ReviewIds(reviews, Categories[k]) # {}
             THEN InsertBySeverity(rest, PainPointOf(reviews, Categories[k]))
             ELSE rest

analyzeReviews(reviews) == PainPointsFrom(reviews, 1)

InitReviews ==
    /\ AdapterOff /\ ManagerOff /\ RepeatOff /\ RouteOff /\ BountyOff /\ StoreOff
    /\ fname = "analyzeReviews"
    /\ fin \in {[reviews |-> r] : r \in ReviewLists}
    /\ fpc = "ready"
    /\ fout = <<>>

CallAnalyzeReviews ==
    /\ fpc = "ready" /\ fname = "analyzeReviews"
    /\ fout' = analyzeReviews(fin.reviews)
    /\ fpc' = "done"
    /\ UNCHANGED <<fname, fin>>
    /\ UNCHANGED <<avars, svars, rvars, pvars, bvars, tvars>>

NextReviews == CallAnalyzeReviews

SpecReviews == InitReviews /\ [][NextReviews]_vars

\* C21: every pain point analyzeReviews emits has a severity within 1..10
\* (10..100 tenths).
C21_SeverityInRange ==
    Called("analyzeReviews") =>
        \A i \in 1..Len(fout) : fout[i].severity >= 10 /\ fout[i].severity <= 100

\* C29: for every category the recent mentions counted by analyzeReviews
\* do not exceed the number of distinct reviews that mention the category.
C29_RecentWithinMentions ==
    Called("analyzeReviews") =>
        \A c \in Elements(Categories) :
            RecentCount(fin.reviews, c) <= Cardinality(ReviewIds(fin.reviews, c))

(***************************************************************************)
(* analyzeWebsite and detectFeature (src/lib/opportunities/types.ts),      *)
(* specification SpecWebsite.  The pages enter detectFeature as the        *)
(* number of pages and, summed over the pages, the numbers of keywords,    *)
(* scripts and elements of the feature type that are found, and whether    *)
(* the special check of the feature type succeeds.  A confidence is the    *)
(* fraction num / den.                                                     *)
(***************************************************************************)
\* four of the keys of FEATURE_DETECTION_PATTERNS, in their order
FeatureTypes == <<"contact_form", "live_chat", "ssl_certificate", "sitemap">>

\* the lengths of the pattern lists of a feature type
Patterns(featureType) ==
    CASE featureType = "contact_form" -> [keywords |-> 4, scripts |-> 0, elements |-> 3]
      [] featureType = "live_chat" -> [keywords |-> 3, scripts |-> 7, elements |-> 0]
      [] OTHER -> [keywords |-> 0, scripts |-> 0, elements |-> 0]

\* the feature types of the switch statement
SpecialTypes == {"ssl_certificate", "mobile_responsive", "schema_markup", "google_analytics"}

\* what the pages can hold for a feature type
PageSignals(featureType, pages) ==
    [keywords : 0..(pages * Patterns(featureType).keywords),
     scripts : 0..(pages * Patterns(featureType).scripts),
     elements : 0..(pages * Patterns(featureType).elements),
     special : IF featureType \in SpecialTypes THEN BOOLEAN ELSE {FALSE}]

\* nothing found, one keyword found, every element found, everything found
SignalSamples(featureType, pages) ==
    {g \in PageSignals(featureType, pages) :
        /\ g.keywords \in {0, 1, pages * Patterns(featureType).keywords}
        /\ g.scripts \in {0, pages * Patterns(featureType).scripts}
        /\ g.elements \in {0, pages * Patterns(featureType).elements}}

\* totalChecks
TotalChecks(featureType, pages) ==
    IF featureType \in SpecialTypes THEN 1
    ELSE pages * (Patterns(featureType).keywords + Patterns(featureType).scripts
                  + Patterns(featureType).elements)

\* signals: scripts count twice
Signals(featureType, found) ==
    IF featureType \in SpecialTypes THEN (IF found.special THEN 1 ELSE 0)
    ELSE found.keywords + 2 * found.scripts + found.elements

detectFeatureAboveHalf(featureType, pages, found) ==
    LET totalChecks == TotalChecks(featureType, pages)
        signals == Signals(featureType, found)
        detected == totalChecks > 0 /\ 2 * signals > totalChecks
        checks == Max(totalChecks, 1)
    IN  [detected |-> detected,
         confidence |-> IF detected THEN [num |-> 0, den |-> 10 * checks]
                        ELSE [num |-> 10 * checks
                                      - (IF totalChecks > 0 THEN 10 * signals ELSE 0),
                              den |-> 10 * checks]]

\* detectionRatio = signals / totalChecks (0 without checks); detected when
\* it is above 0.2; confidence 0 when detected, else
\* Math.min(1 - detectionRatio + 0.3, 1)
detectFeature(featureType, pages, found) ==
    LET totalChecks == TotalChecks(featureType, pages)
        signals == Signals(featureType, found)
        detected == totalChecks > 0 /\ 5 * signals > totalChecks
        checks == Max(totalChecks, 1)
    IN  [detected |-> detected,
         confidence |-> IF detected THEN [num |-> 0, den |-> 10 * checks]
                        ELSE [num |-> Min(10 * checks
                                          - (IF totalChecks > 0 THEN 10 * signals ELSE 0)
                                          + 3 * checks,
                                          10 * checks),
                              den |-> 10 * checks]]

\* mf.confidence > 0.6
AboveSixTenths(confidence) == 10 * confidence.num > 6 * confidence.den

RECURSIVE Classified(_, _, _, _)
\* the loop over the feature types, from the k-th on
Classified(pages, found, k, result) ==
    IF k > Len(FeatureTypes) THEN result
    ELSE LET featureType == FeatureTypes[k]
             detection == detectFeature(featureType, pages, found[featureType])
         IN  Classified(pages, found, k + 1,
                IF detection.detected
                THEN [result EXCEPT !.detectedFeatures = Append(@, featureType)]
                ELSE [result EXCEPT !.missingFeatures =
                         Append(@, [feature |-> featureType,
                                    confidence |-> detection.confidence])])

\* analyzeWebsite: main tells whether fetchPage gave the main page,
\* additional is the number of further pages fetched
analyzeWebsite(main, additional, found) ==
    LET result == [accessible |-> FALSE, missingFeatures |-> <<>>,
                   detectedFeatures |-> <<>>, errors |-> <<>>]
    IN  IF ~main
        THEN [result EXCEPT !.errors = <<"Could not access main page">>]
        ELSE LET all == Classified(1 + additional, found, 1,
                                   [result EXCEPT !.accessible = TRUE])
             IN  [all EXCEPT !.missingFeatures =
                     SelectSeq(@, LAMBDA mf : AboveSixTenths(mf.confidence))]

WebsiteFunctions == {"detectFeature", "analyzeWebsite"}

WebsiteInputs(f) ==
    IF f = "detectFeature"
    THEN UNION {{[featureType |-> ft, pages |-> p, found |-> g] :
                    g \in PageSignals(ft, p)} :
                ft \in Elements(FeatureTypes), p \in 1..MaxPages}
    ELSE UNION {{[main |-> m, additional |-> a, found |-> g] :
                    g \in {h \in [Elements(FeatureTypes) ->
                                    UNION {SignalSamples(ft, 1 + a) : ft \in Elements(FeatureTypes)}] :
                            \A ft \in Elements(FeatureTypes) : h[ft] \in SignalSamples(ft, 1 + a)}} :
                m \in BOOLEAN, a \in 0..(MaxPages - 1)}

InitWebsite ==
    /\ AdapterOff /\ ManagerOff /\ RepeatOff /\ RouteOff /\ BountyOff /\ StoreOff
    /\ fname \in WebsiteFunctions
    /\ fin \in WebsiteInputs(fname)
    /\ fpc = "ready"
    /\ fout = <<>>

CallDetectFeature ==
    /\ fpc = "ready" /\ fname = "detectFeature"
    /\ fout' = detectFeature(fin.featureType, fin.pages, fin.found)
    /\ fpc' = "done"
    /\ UNCHANGED <<fname, fin>>
    /\ UNCHANGED <<avars, svars, rvars, pvars, bvars, tvars>>

CallAnalyzeWebsite ==
    /\ fpc = "ready" /\ fname = "analyzeWebsite"
    /\ fout' = analyzeWebsite(fin.main, fin.additional, fin.found)
    /\ fpc' = "done"
    /\ UNCHANGED <<fname, fin>>
    /\ UNCHANGED <<avars, svars, rvars, pvars, bvars, tvars>>

NextWebsite ==
    \/ CallDetectFeature
    \/ CallAnalyzeWebsite

SpecWebsite == InitWebsite /\ [][NextWebsite]_vars

\* C24: the confidence detectFeature gives to a feature it does not detect
\* is 1 - detectionRatio, clamped to [0, 1].
C24_ConfidenceIsOneMinusRatio ==
    (Called("detectFeature") /\ ~fout.detected) =>
        LET totalChecks == TotalChecks(fin.featureType, fin.pages)
            signals == Signals(fin.featureType, fin.found)
        IN  fout.confidence.num * Max(totalChecks, 1)
               = fout.confidence.den
                   * (IF totalChecks > 0
                      THEN Max(totalChecks - signals, 0)
                      ELSE 1)

\* C30: for an accessible website every feature type is in exactly one of
\* detectedFeatures and missingFeatures and every missing feature has a
\* confidence above 0.6; for an inaccessible one the result has
\* accessible = false and both lists empty.
C30_FeaturesPartitioned ==
    Called("analyzeWebsite") =>
        LET missing == {fout.missingFeatures[i].feature :
                           i \in 1..Len(fout.missingFeatures)}
            detected == Elements(fout.detectedFeatures)
        IN  IF fin.main
            THEN /\ fout.accessible
                 /\ missing \cap detected = {}
                 /\ missing \cup detected = Elements(FeatureTypes)
                 /\ Len(fout.missingFeatures) = Cardinality(missing)
                 /\ Len(fout.detectedFeatures) = Cardinality(detected)
                 /\ \A i \in 1..Len(fout.missingFeatures) :
                       AboveSixTenths(fout.missingFeatures[i].confidence)
            ELSE /\ ~fout.accessible
                 /\ fout.missingFeatures = <<>>
                 /\ fout.detectedFeatures = <<>>

\* C30 witness: an accessible website with a further page on which some
\* signals of a feature type were found without reaching detection, and
\* which has both detected and missing features.
C30_Witness ==
    /\ Called("analyzeWebsite")
    /\ fin.main /\ fin.additional > 0
    /\ fin.found["contact_form"].keywords = 1
    /\ fin.found["contact_form"].elements = 0
    /\ \E i \in 1..Len(fout.missingFeatures) :
          fout.missingFeatures[i].feature = "contact_form"
    /\ fout.detectedFeatures # <<>>

(***************************************************************************)
(* The order of the steps of one BountyBoardScraper.search call            *)
(* (SpecBounty)                                                            *)
(***************************************************************************)
\* the businesses of the c-th searched category have all been taken up
CategoryComplete(b, c) ==
    b.log[c].kind = "ok" => b.log[c].analyzed = Min(b.log[c].n, 3)

\* C22: in every step of a search call, a places search is requested only
\* after the categories are resolved and after every business of the
\* earlier categories was analysed; a business is taken up only after the
\* search of its category answered and the business before it is finished;
\* a website scan follows the details request of the same business; and
\* the result is returned only after every category is done.
C22_StepsInOrder ==
    [][/\ bb'.searches > bb.searches =>
             /\ bb'.types # <<>>
             /\ bb'.searches = bb.searches + 1
             /\ bb.pc # "website"
             /\ Len(bb'.log) = bb.cat
             /\ \A c \in 1..bb.cat : CategoryComplete(bb', c)
       /\ bb'.details > bb.details =>
             /\ bb'.details = bb.details + 1
             /\ bb.pc # "website"
             /\ Len(bb'.log) = bb'.cat
             /\ bb'.log[bb'.cat].kind = "ok"
             /\ bb'.idx = bb'.log[bb'.cat].analyzed
       /\ (bb'.pc = "website" /\ bb.pc # "website") => bb.pc = "details"
       /\ (bb'.pc = "done" /\ bb.pc # "done" /\ bb.configured) =>
             /\ Len(bb'.log) = Min(Len(bb'.types), 3)
             /\ \A c \in 1..Len(bb'.log) : CategoryComplete(bb', c)
             /\ bb'.searches = Len(bb'.log)
      ]_vars

\* C22 witness: the call awaits the website scan of the second business
\* of the second category, after a first category with 3 businesses
\* analysed.
C22_Witness ==
    /\ bb.pc = "website"
    /\ bb.cat = 2 /\ bb.idx = 2
    /\ bb.log[1].kind = "ok" /\ bb.log[1].analyzed = 3
    /\ bb.searches = 2

(***************************************************************************)
(* The stores (specification SpecStore): the curated gigs of               *)
(* src/unnamed/part_007 in memory and in the database of                   *)
(* src/unnamed/part_011, and the search queries, scraped gigs and curated  *)
(* gigs of src/lib/gigs/store.ts, with the calls that read and write       *)
(* them.  A map is a function on its keys.  A scraped gig id is            *)
(* <<"gig", <<"id", time, serial>>>> and a key of the scraped gig map is   *)
(* <<source, <<"mock", time, index>>>>.                                    *)
(***************************************************************************)
Statuses == {"pending", "approved", "rejected", "hidden"}

\* updates.status: a status, the key missing, or the key with undefined
UpdateStatuses == Statuses \cup {"absent", "undefined"}

CuratedIds == 1..MaxCurated

EmptyMap == [k \in {} |-> 0]

\* map.set(key, value)
Put(map, key, value) ==
    [k \in DOMAIN map \cup {key} |-> IF k = key THEN value ELSE map[k]]

\* map.delete(key)
Remove(map, key) == [k \in DOMAIN map \ {key} |-> map[k]]

\* query.sources of runSearchQuery
QuerySources == {<<"upwork">>, <<"upwork", "linkedin">>}

\* mockScraper.scrape at time t, n matching gigs, for the p-th source:
\* runScraper overrides the source
ScrapedOf(source, p, n, t, serial) ==
    [i \in 1..n |->
        [id |-> <<"gig", <<"id", t, serial + (p - 1) * n + i>>>>,
         source |-> source,
         sourceId |-> <<"mock", t, i - 1>>]]

\* allGigs of runSearchQuery
AllScraped(srcs, n, t, serial) ==
    Flatten([p \in 1..Len(srcs) |-> ScrapedOf(srcs[p], p, n, t, serial)])

RECURSIVE KeepFrom(_, _, _)
\* allGigs.filter(...): the gigs at the places the filters let pass
KeepFrom(gigs, pass, i) ==
    IF i > Len(gigs) THEN <<>>
    ELSE (IF i \in pass THEN <<gigs[i]>> ELSE <<>>) \o KeepFrom(gigs, pass, i + 1)

RECURSIVE saveScrapedGigs(_, _)
\* for (const gig of gigs) scrapedGigs.set(`${gig.source}:${gig.sourceId}`, gig)
saveScrapedGigs(map, gigs) ==
    IF gigs = <<>> THEN map
    ELSE saveScrapedGigs(Put(map, <<Head(gigs).source, Head(gigs).sourceId>>, Head(gigs)),
                         Tail(gigs))

NoGig == [id |-> <<"", <<"", 0, 0>>>>, source |-> "", sourceId |-> <<"", 0, 0>>]

\* scrapedGigs.get(`${source}:${sourceId}`) || null
getScrapedGig(map, source, sourceId) ==
    IF <<source, sourceId>> \in DOMAIN map THEN map[<<source, sourceId>>] ELSE NoGig

\* scrapedGigs.get(id) || null
getScrapedGigById(map, id) ==
    IF id \in DOMAIN map THEN map[id] ELSE NoGig

NoCall == [op |-> "", id |-> 0, known |-> FALSE, ret |-> "", gigs |-> <<>>,
           gigId |-> <<"", <<"", 0, 0>>>>]

InitStore ==
    /\ AdapterOff /\ ManagerOff /\ PureOff /\ RepeatOff /\ RouteOff /\ BountyOff
    /\ \E db \in BOOLEAN :
          st = [pc |-> "run", useDatabase |-> db, ops |-> 0, nextId |-> 1,
                serial |-> 0,
                curatedGigs |-> EmptyMap, rows |-> EmptyMap,
                searchQueries |-> {}, scrapedGigs |-> EmptyMap,
                storeCurated |-> {}, scrapedGigsCache |-> EmptyMap,
                last |-> NoCall]

\* the stored curated gigs of the mode in use
Stored(s) == IF s.useDatabase THEN s.rows ELSE s.curatedGigs

\* addCuratedGig(companyId, gig, status): addCuratedGigToDB with the
\* database, else curatedGigs.set(id, { ..., status, addedAt })
AddCuratedGig ==
    /\ st.pc = "run" /\ st.ops < MaxOps /\ st.nextId <= MaxCurated
    /\ \E status \in Statuses, dbok \in BOOLEAN :
          /\ ~st.useDatabase => dbok
          /\ LET id == st.nextId
                 new == [status |-> status, approvedAt |-> FALSE]
                 called == [st EXCEPT !.ops = @ + 1, !.nextId = @ + 1,
                                      !.last = [NoCall EXCEPT !.op = "addCuratedGig",
                                                              !.id = id,
                                                              !.ret = IF dbok THEN "gig" ELSE "null"]]
             IN  st' = IF st.useDatabase
                       THEN (IF dbok THEN [called EXCEPT !.rows = Put(@, id, new)]
                             ELSE called)
                       ELSE [called EXCEPT !.curatedGigs = Put(@, id, new)]
    /\ UNCHANGED <<avars, svars, fvars, rvars, pvars, bvars>>

\* updateCuratedGigInDB: the UPDATE statement, true unless sql throws
updateCuratedGigInDB(rows, id, status, dbok) ==
    [rows |-> IF dbok /\ id \in DOMAIN rows
              THEN [rows EXCEPT ![id] =
                       [status |-> IF status \in Statuses THEN status ELSE @.status,
                        approvedAt |-> (status = "approved") \/ @.approvedAt]]
              ELSE rows,
     ret |-> dbok]

\* deleteCuratedGigFromDB: the DELETE statement, true unless sql throws
deleteCuratedGigFromDB(rows, id, dbok) ==
    [rows |-> IF dbok THEN Remove(rows, id) ELSE rows,
     ret |-> dbok]

\* { ...existing, ...updates, approvedAt: ... }
Merged(existing, status) ==
    [status |-> IF status = "absent" THEN existing.status ELSE status,
     approvedAt |-> IF status = "approved" THEN TRUE ELSE existing.approvedAt]

\* updateCuratedGig(id, updates)
UpdateCuratedGig ==
    /\ st.pc = "run" /\ st.ops < MaxOps
    /\ \E id \in CuratedIds, status \in UpdateStatuses, dbok \in BOOLEAN :
          /\ ~st.useDatabase => dbok
          /\ LET db == updateCuratedGigInDB(st.rows, id, status, dbok)
                 known == id \in DOMAIN Stored(st)
                 call == [NoCall EXCEPT !.op = "updateCuratedGig", !.id = id,
                                        !.known = known]
                 called == [st EXCEPT !.ops = @ + 1]
             IN  st' = IF st.useDatabase
                       THEN [called EXCEPT !.rows = db.rows,
                                           !.last = [call EXCEPT !.ret = IF db.ret THEN "gig"
                                                                          ELSE "null"]]
                       ELSE IF id \notin DOMAIN st.curatedGigs
                            THEN [called EXCEPT !.last = [call EXCEPT !.ret = "null"]]
                            ELSE [called EXCEPT
                                     !.curatedGigs = Put(@, id, Merged(st.curatedGigs[id], status)),
                                     !.last = [call EXCEPT !.ret = "gig"]]
    /\ UNCHANGED <<avars, svars, fvars, rvars, pvars, bvars>>

\* deleteCuratedGig(id)
DeleteCuratedGig ==
    /\ st.pc = "run" /\ st.ops < MaxOps
    /\ \E id \in CuratedIds, dbok \in BOOLEAN :
          /\ ~st.useDatabase => dbok
          /\ LET db == deleteCuratedGigFromDB(st.rows, id, dbok)
                 known == id \in DOMAIN Stored(st)
                 call == [NoCall EXCEPT !.op = "deleteCuratedGig", !.id = id,
                                        !.known = known]
                 called == [st EXCEPT !.ops = @ + 1]
             IN  st' = IF st.useDatabase
                       THEN [called EXCEPT !.rows = db.rows,
                                           !.last = [call EXCEPT !.ret = IF db.ret THEN "true"
                                                                          ELSE "false"]]
                       ELSE [called EXCEPT
                                !.curatedGigs = Remove(@, id),
                                !.last = [call EXCEPT
                                             !.ret = IF id \in DOMAIN st.curatedGigs
                                                     THEN "true" ELSE "false"]]
    /\ UNCHANGED <<avars, svars, fvars, rvars, pvars, bvars>>

\* searchGigs(query, sources, options) of part_007: it returns the results
\* and writes no store
StoreSearchGigs ==
    /\ st.pc = "run" /\ st.ops < MaxOps
    /\ st' = [st EXCEPT !.ops = @ + 1,
                        !.last = [NoCall EXCEPT !.op = "searchGigs", !.ret = "results"]]
    /\ UNCHANGED <<avars, svars, fvars, rvars, pvars, bvars>>

\* runSearchQuery(query): every source scraped, the filters applied, the
\* remaining gigs saved and returned
RunSearchQuery ==
    /\ st.pc = "run" /\ st.ops < MaxOps
    /\ \E srcs \in QuerySources, n \in 1..MaxScraped, t \in 0..MaxClock :
          LET allGigs == AllScraped(srcs, n, t, st.serial)
          IN  \E pass \in SUBSET (1..Len(allGigs)) :
                 LET filteredGigs == KeepFrom(allGigs, pass, 1)
                 IN  st' = [st EXCEPT !.ops = @ + 1,
                                      !.serial = @ + Len(allGigs),
                                      !.scrapedGigs = saveScrapedGigs(@, filteredGigs),
                                      !.last = [NoCall EXCEPT !.op = "runSearchQuery",
                                                              !.ret = "result",
                                                              !.gigs = filteredGigs]]
    /\ UNCHANGED <<avars, svars, fvars, rvars, pvars, bvars>>

\* the gig ids a client can send: the id of a saved gig, or its key
SentGigIds(s) ==
    {s.scrapedGigs[k].id : k \in DOMAIN s.scrapedGigs} \cup DOMAIN s.scrapedGigs

\* POST /api/gigs/curate with { companyId, gigId }
CurateScraped ==
    /\ st.pc = "run" /\ st.ops < MaxOps
    /\ \E gigId \in SentGigIds(st) :
          LET gig == getScrapedGigById(st.scrapedGigs, gigId)
              call == [NoCall EXCEPT !.op = "curate", !.gigId = gigId]
          IN  st' = IF gig = NoGig
                    THEN [st EXCEPT !.ops = @ + 1,
                                    !.last = [call EXCEPT !.ret = "Gig not found"]]
                    ELSE [st EXCEPT !.ops = @ + 1,
                                    !.storeCurated = @ \cup {gig.id},
                                    !.last = [call EXCEPT !.ret = "curated"]]
    /\ UNCHANGED <<avars, svars, fvars, rvars, pvars, bvars>>

NextStore ==
    \/ AddCuratedGig
    \/ UpdateCuratedGig
    \/ DeleteCuratedGig
    \/ StoreSearchGigs
    \/ RunSearchQuery
    \/ CurateScraped

SpecStore == InitStore /\ [][NextStore]_vars

(***************************************************************************)
(* Claims about the stores (SpecStore)                                     *)
(***************************************************************************)
\* everything that persists
Persistent(s) ==
    <<s.searchQueries, s.curatedGigs, s.rows, s.storeCurated, s.scrapedGigs,
      s.scrapedGigsCache>>

\* the step is a call of op
Calls(op) == st'.ops = st.ops + 1 /\ st'.last.op = op

\* C23: a search call (searchGigs, runSearchQuery) leaves the stored
\* search queries, the curated gigs, the scraped gigs and the scraped gig
\* cache as they were.
C23_SearchLeavesStores ==
    [][(Calls("searchGigs") \/ Calls("runSearchQuery")) =>
          Persistent(st') = Persistent(st)]_vars

\* C25: after runSearchQuery saved its gigs, every saved gig is returned
\* both by getScrapedGig(source, sourceId) and by getScrapedGigById(id),
\* and curating the id of a saved gig does not answer 'Gig not found'.
C25_SavedGigsAreFound ==
    /\ st.last.op = "runSearchQuery" =>
          \A i \in 1..Len(st.last.gigs) :
             LET g == st.last.gigs[i]
             IN  /\ getScrapedGig(st.scrapedGigs, g.source, g.sourceId) = g
                 /\ getScrapedGigById(st.scrapedGigs, g.id) = g
    /\ (st.last.op = "curate"
        /\ \E k \in DOMAIN st.scrapedGigs : st.scrapedGigs[k].id = st.last.gigId) =>
          st.last.ret # "Gig not found"

\* C27: with and without the database, updateCuratedGig of an id that no
\* stored curated gig has returns null, deleteCuratedGig of such an id
\* returns false, and the stored gigs stay as they were.
C27_UnknownIdSameInBothModes ==
    [][/\ (Calls("updateCuratedGig") /\ ~st'.last.known) =>
             /\ st'.last.ret = "null"
             /\ Stored(st') = Stored(st)
       /\ (Calls("deleteCuratedGig") /\ ~st'.last.known) =>
             /\ st'.last.ret = "false"
             /\ Stored(st') = Stored(st)]_vars

\* C28: in the in-memory store every curated gig with status approved has
\* approvedAt set, and no step clears the approvedAt of a stored gig.
C28_ApprovedHasApprovedAt ==
    /\ [](\A id \in DOMAIN st.curatedGigs :
             st.curatedGigs[id].status = "approved" => st.curatedGigs[id].approvedAt)
    /\ [][\A id \in DOMAIN st.curatedGigs \cap DOMAIN st'.curatedGigs :
             st.curatedGigs[id].approvedAt => st'.curatedGigs[id].approvedAt]_vars

(***************************************************************************)
(* Claims about the flattened records of one search (Spec)                 *)
(***************************************************************************)
\* no element occurs twice
PairwiseDistinct(seq) ==
    \A i, j \in 1..Len(seq) : i # j => seq[i] # seq[j]

\* C26: when the requested source tags are pairwise distinct, no two
\* records of the flattened list of the response have the same id.
C26_FlattenedIdsUnique ==
    (Responded /\ PairwiseDistinct(sources)) =>
        PairwiseDistinct([i \in 1..Len(response.gigs) |-> response.gigs[i].id])

====
